---- MODULE Spec2Model ----
(***************************************************************************)
(* Blockchain state manager of the beacon client                            *)
(* (corpochain/consensus/blockchain.py, multiprocess_validation.py,         *)
(* block_body_validation.py).                                               *)
(*                                                                          *)
(* A state of the model is a point at which the asyncio event loop may run  *)
(* another task: between two calls, or at an await of an in-flight call.    *)
(* Code between two awaits is one atomic action.                            *)
(***************************************************************************)
EXTENDS Integers, Sequences, FiniteSets, TLC

VARIABLES
    world,              \* shape of the block tree the peers can offer (fixed per behaviour)
    db,                 \* Block Store: committed rows, in-chain flags, peak pointer
    tx,                 \* Block Store: working copy of the open writer transaction
    block_cache,        \* Block Store: internal memoization of full blocks
    block_records,      \* Blockchain.__block_records
    heights_in_cache,   \* Blockchain.__heights_in_cache
    height_map,         \* Blockchain.__height_map (height -> header hash)
    peak_height,        \* Blockchain._peak_height
    pc,                 \* await point of the in-flight call ("idle": none)
    cur,                \* locals of the in-flight receive_block
    pre,                \* chain state when the in-flight receive_block was called
    ret,                \* what the last call returned or raised
    bad_batches,        \* number of lists with a failing block sent to pre-validation so far
    faults,             \* number of exceptions and cancellations injected so far
    call                \* arguments and result of a call of a function that keeps no state

\* the state of the Blockchain object and of its Block Store
chainvars == <<world, db, tx, block_cache, block_records, heights_in_cache,
               height_map, peak_height, pc, cur, pre, ret, bad_batches, faults>>

vars == <<chainvars, call>>

(***************************************************************************)
(* Bounds of the block trees the peers can offer.                           *)
(***************************************************************************)
MainLen == 5            \* default trees: chain A has heights 0 .. MainLen-1
ForkLen == 2            \* fork tree: number of blocks of chain B
AltLen == 2             \* alt tree: number of blocks of chain C
ReorgMainLen == 11      \* reorg tree: chain A has heights 0 .. 10
ReorgForkLen == 6       \* reorg tree: chain B has heights 6 .. 11
BLOCKS_CACHE_SIZE == 2  \* constants.BLOCKS_CACHE_SIZE, scaled down

\* chain A, the chain B that leaves it at height 1 with difficulty 2 per block, and
\* the block X of wrong height
ForkWorld ==
    [alen |-> MainLen, forkh |-> 1, blen |-> ForkLen, bdiff |-> 2,
     clen |-> 0, cdiff |-> 4, x |-> TRUE]

\* chain A and the chain C that starts at its own height-0 block, difficulty 4 per block
AltWorld ==
    [alen |-> MainLen, forkh |-> 1, blen |-> 0, bdiff |-> 2,
     clen |-> AltLen, cdiff |-> 4, x |-> FALSE]

\* chain A and the chain B that leaves it at height 5 with difficulty 2 per block
ReorgWorld ==
    [alen |-> ReorgMainLen, forkh |-> 5, blen |-> ReorgForkLen, bdiff |-> 2,
     clen |-> 0, cdiff |-> 4, x |-> FALSE]

(***************************************************************************)
(* Values standing for Python's None.                                       *)
(***************************************************************************)
NoHeight == 0 - 1
NoHash == <<"None", 0>>
GENESIS_CHALLENGE == <<"GENESIS_CHALLENGE", 0>>
NoRecord == [header_hash |-> NoHash, prev_hash |-> NoHash, height |-> NoHeight,
             weight |-> 0, required_iters |-> 0]
NoSummary == [peak |-> NoHash, fork_height |-> NoHeight]

(***************************************************************************)
(* Full blocks.  A header hash is <<chain, height>>.                        *)
(*   A: the main chain, difficulty 1 per block.                             *)
(*   B: a fork of A above world.forkh, difficulty world.bdiff per block.    *)
(*   C: a chain with its own height-0 block, difficulty world.cdiff.        *)
(*   X: a block that names A's height-0 block as parent but claims height 2.*)
(***************************************************************************)
Blocks ==
    {<<"A", h>> : h \in 0 .. world.alen - 1}
    \cup {<<"B", h>> : h \in world.forkh + 1 .. world.forkh + world.blen}
    \cup {<<"C", h>> : h \in 0 .. world.clen - 1}
    \cup (IF world.x THEN {<<"X", 2>>} ELSE {})

Height(b) == b[2]

Prev(b) ==
    CASE b[1] = "A" -> IF b[2] = 0 THEN GENESIS_CHALLENGE ELSE <<"A", b[2] - 1>>
      [] b[1] = "B" -> IF b[2] = world.forkh + 1 THEN <<"A", world.forkh>> ELSE <<"B", b[2] - 1>>
      [] b[1] = "C" -> IF b[2] = 0 THEN GENESIS_CHALLENGE ELSE <<"C", b[2] - 1>>
      [] OTHER -> <<"A", 0>>

Weight(b) ==
    CASE b[1] = "A" -> b[2] + 1
      [] b[1] = "B" -> (world.forkh + 1) + world.bdiff * (b[2] - world.forkh)
      [] b[1] = "C" -> world.cdiff * (b[2] + 1)
      [] OTHER -> 2

HasPayload(b) == Height(b) > 0

\* calculate_iterations_quality: a function of the block's proof of space
RequiredIters(b) == 1 + (Height(b) % 2)

block_to_block_record(b, required_iters) ==
    [header_hash |-> b, prev_hash |-> Prev(b), height |-> Height(b),
     weight |-> Weight(b), required_iters |-> required_iters]

(***************************************************************************)
(* Finite maps.                                                             *)
(***************************************************************************)
EmptyMap == [x \in {} |-> NoHash]
Restrict(f, S) == [x \in S |-> f[x]]
Put(f, k, v) == [x \in DOMAIN f \cup {k} |-> IF x = k THEN v ELSE f[x]]

\* max that hands back its first argument unclamped
Max_unclamped(a, b) == a

Max(a, b) == IF a >= b THEN a ELSE b

RECURSIVE Reverse(_)
Reverse(s) == IF s = <<>> THEN <<>> ELSE Append(Reverse(Tail(s)), Head(s))

(***************************************************************************)
(* Block Store (transactional).                                             *)
(***************************************************************************)
EmptyDb == [rows |-> EmptyMap, in_chain |-> {}, peak |-> NoHash]

add_full_block(t, header_hash, block_record) ==
    [t EXCEPT !.rows = Put(t.rows, header_hash, block_record)]

set_in_chain(t, hashes) == [t EXCEPT !.in_chain = t.in_chain \cup hashes]

set_peak(t, header_hash) == [t EXCEPT !.peak = header_hash]

\* drops sub-epoch summaries above the height; the rows, flags and peak stay
store_rollback(t, height) == t

rollback_cache_block(bc, header_hash) == bc \ {header_hash}

(***************************************************************************)
(* Height Map.                                                              *)
(***************************************************************************)
contains_height(hm, h) == h \in DOMAIN hm

height_map_rollback(hm, fork_height) == Restrict(hm, {h \in DOMAIN hm : h <= fork_height})

update_height(hm, h, header_hash) == Put(hm, h, header_hash)

RECURSIVE update_heights(_, _, _)
\* the first n iterations of the loop over the records returned by _reconsider_peak
update_heights(hm, records, n) ==
    IF n = 0 \/ records = <<>> THEN hm
    ELSE update_heights(update_height(hm, Head(records).height, Head(records).header_hash),
                        Tail(records), n - 1)

(***************************************************************************)
(* Blockchain: the block-record cache and the readers.                      *)
(***************************************************************************)
Cache == [block_records |-> block_records, heights_in_cache |-> heights_in_cache]

contains_block(header_hash) == header_hash \in DOMAIN block_records

block_record(header_hash) == block_records[header_hash]

add_block_record(c, br) ==
    [block_records |-> Put(c.block_records, br.header_hash, br),
     heights_in_cache |->
        Put(c.heights_in_cache, br.height,
            (IF br.height \in DOMAIN c.heights_in_cache
             THEN c.heights_in_cache[br.height] ELSE {}) \cup {br.header_hash})]

\* remove_block_record that leaves the hash in the set of its height
remove_block_record_keeps_height_entry(c, header_hash) ==
    [block_records |-> Restrict(c.block_records, DOMAIN c.block_records \ {header_hash}),
     heights_in_cache |-> c.heights_in_cache]

remove_block_record(c, header_hash) ==
    [block_records |-> Restrict(c.block_records, DOMAIN c.block_records \ {header_hash}),
     heights_in_cache |->
        [c.heights_in_cache EXCEPT ![c.block_records[header_hash].height] = @ \ {header_hash}]]

height_to_hash(h) == IF contains_height(height_map, h) THEN height_map[h] ELSE NoHash

\* get_peak raises: ValueError for a height missing from the height map,
\* KeyError for a hash missing from the cache
get_peak_raises ==
    /\ peak_height # NoHeight
    /\ \/ height_to_hash(peak_height) = NoHash
       \/ ~contains_block(height_to_hash(peak_height))

get_peak ==
    IF peak_height = NoHeight THEN NoRecord ELSE block_record(height_to_hash(peak_height))

(***************************************************************************)
(* find_fork_point_in_chain: walks the two records back through the cache   *)
(* until they meet; -1 when they share no block.  KeyErr stands for the     *)
(* KeyError of a lookup that misses the cache.                              *)
(***************************************************************************)
KeyErr == 0 - 2

RECURSIVE find_fork_point_in_chain(_, _, _)
find_fork_point_in_chain(recs, block_1, block_2) ==
    IF block_2.height > 0 \/ block_1.height > 0
    THEN IF block_2.height > block_1.height
         THEN IF block_2.prev_hash \notin DOMAIN recs THEN KeyErr
              ELSE LET b2 == recs[block_2.prev_hash] IN
                   IF b2 = block_1 THEN b2.height
                   ELSE find_fork_point_in_chain(recs, block_1, b2)
         ELSE IF block_1.prev_hash \notin DOMAIN recs THEN KeyErr
              ELSE LET b1 == recs[block_1.prev_hash] IN
                   IF block_2 = b1 THEN block_2.height
                   ELSE find_fork_point_in_chain(recs, b1, block_2)
    ELSE IF block_2 # block_1 THEN 0 - 1 ELSE 0

(***************************************************************************)
(* _reconsider_peak.                                                        *)
(***************************************************************************)
RECURSIVE backtrack(_, _, _, _)
\* the while loop of _reconsider_peak: the records from curr back to the fork
\* point, newest first; ok is FALSE when a fetched row is missing (assert)
backtrack(rows, curr, fork_height, acc) ==
    IF fork_height >= 0 /\ curr = height_to_hash(fork_height)
    THEN [ok |-> TRUE, blocks |-> acc]
    ELSE IF curr \notin DOMAIN rows
    THEN [ok |-> FALSE, blocks |-> acc]
    ELSE IF rows[curr].height = 0
    THEN [ok |-> TRUE, blocks |-> Append(acc, rows[curr])]
    ELSE backtrack(rows, rows[curr].prev_hash, fork_height, Append(acc, rows[curr]))

Raised(t) == [ok |-> FALSE, tx |-> t, records |-> <<>>, summary |-> NoSummary]

\* reconsider_fork reporting the new block's parent height as the fork height
reconsider_fork_parent_height(t, br, fork_height) ==
    LET walk == backtrack(t.rows, br.header_hash, fork_height, <<>>)
        records_to_add == Reverse(walk.blocks)
        hashes == {records_to_add[i].header_hash : i \in 1 .. Len(records_to_add)}
    IN  IF ~walk.ok THEN Raised(t)
        ELSE [ok |-> TRUE,
              tx |-> set_peak(set_in_chain(store_rollback(t, fork_height), hashes),
                              br.header_hash),
              records |-> records_to_add,
              summary |-> [peak |-> br.header_hash, fork_height |-> Max(br.height - 1, 0)]]

reconsider_fork(t, br, fork_height) ==
    LET walk == backtrack(t.rows, br.header_hash, fork_height, <<>>)
        records_to_add == Reverse(walk.blocks)
        hashes == {records_to_add[i].header_hash : i \in 1 .. Len(records_to_add)}
    IN  IF ~walk.ok THEN Raised(t)
        ELSE [ok |-> TRUE,
              tx |-> set_peak(set_in_chain(store_rollback(t, fork_height), hashes),
                              br.header_hash),
              records |-> records_to_add,
              summary |-> [peak |-> br.header_hash, fork_height |-> Max(fork_height, 0)]]

\* _reconsider_peak with the weight test "<" in place of "<="
reconsider_peak_strict(t, br, genesis, fork_point_with_peak) ==
    IF get_peak_raises THEN Raised(t)
    ELSE LET peak == get_peak IN
    IF genesis
    THEN IF peak = NoRecord
         THEN IF br.header_hash \notin DOMAIN t.rows THEN Raised(t)
              ELSE [ok |-> TRUE,
                    tx |-> set_peak(set_in_chain(t, {br.header_hash}), br.header_hash),
                    records |-> <<br>>,
                    summary |-> [peak |-> br.header_hash, fork_height |-> 0]]
         ELSE [ok |-> TRUE, tx |-> t, records |-> <<>>, summary |-> NoSummary]
    ELSE IF peak = NoRecord THEN Raised(t)
    ELSE IF br.weight < peak.weight
    THEN [ok |-> TRUE, tx |-> t, records |-> <<>>, summary |-> NoSummary]
    ELSE IF br.prev_hash = peak.header_hash THEN reconsider_fork(t, br, peak.height)
    ELSE IF fork_point_with_peak # NoHeight THEN reconsider_fork(t, br, fork_point_with_peak)
    ELSE LET fork_height == find_fork_point_in_chain(block_records, br, peak) IN
         IF fork_height = KeyErr THEN Raised(t) ELSE reconsider_fork(t, br, fork_height)

reconsider_peak(t, br, genesis, fork_point_with_peak) ==
    IF get_peak_raises THEN Raised(t)
    ELSE LET peak == get_peak IN
    IF genesis
    THEN IF peak = NoRecord
         THEN IF br.header_hash \notin DOMAIN t.rows THEN Raised(t)
              ELSE [ok |-> TRUE,
                    tx |-> set_peak(set_in_chain(t, {br.header_hash}), br.header_hash),
                    records |-> <<br>>,
                    summary |-> [peak |-> br.header_hash, fork_height |-> 0]]
         ELSE [ok |-> TRUE, tx |-> t, records |-> <<>>, summary |-> NoSummary]
    ELSE IF peak = NoRecord THEN Raised(t)
    ELSE IF br.weight <= peak.weight
    THEN [ok |-> TRUE, tx |-> t, records |-> <<>>, summary |-> NoSummary]
    ELSE IF br.prev_hash = peak.header_hash THEN reconsider_fork(t, br, peak.height)
    ELSE IF fork_point_with_peak # NoHeight THEN reconsider_fork(t, br, fork_point_with_peak)
    ELSE LET fork_height == find_fork_point_in_chain(block_records, br, peak) IN
         IF fork_height = KeyErr THEN Raised(t) ELSE reconsider_fork(t, br, fork_height)

(***************************************************************************)
(* validate_block_body: the policy over the two Engine API answers.         *)
(***************************************************************************)
Statuses == {"VALID", "INVALID", "INVALID_BLOCK_HASH", "SYNCING", "ACCEPTED", "OTHER"}

\* the forkchoice policy importing optimistically whatever the option says
forkchoice_policy_always_optimistic(fcu, optimistic_import) ==
    IF fcu \in {"INVALID", "INVALID_BLOCK_HASH"} THEN "PAYLOAD_INVALIDATED"
    ELSE IF fcu \in {"SYNCING", "ACCEPTED"} THEN "None"
    ELSE IF fcu # "VALID" THEN "UNKNOWN"
    ELSE "None"

forkchoice_policy(fcu, optimistic_import) ==
    IF fcu \in {"INVALID", "INVALID_BLOCK_HASH"} THEN "PAYLOAD_INVALIDATED"
    ELSE IF fcu \in {"SYNCING", "ACCEPTED"}
    THEN (IF ~optimistic_import THEN "PAYLOAD_NOT_VALIDATED" ELSE "None")
    ELSE IF fcu # "VALID" THEN "UNKNOWN"
    ELSE "None"

\* validate_block_body letting an unfinished block pass while the engine is syncing
validate_block_body_unfinished_syncing(is_full, has_payload, np, fcu, optimistic_import) ==
    IF ~has_payload THEN "None"
    ELSE IF np \in {"INVALID", "INVALID_BLOCK_HASH"} THEN "PAYLOAD_INVALIDATED"
    ELSE IF np \notin {"SYNCING", "ACCEPTED", "VALID"} THEN "UNKNOWN"
    ELSE IF is_full THEN forkchoice_policy(fcu, optimistic_import)
    ELSE "None"

validate_block_body(is_full, has_payload, np, fcu, optimistic_import) ==
    IF ~has_payload THEN "None"
    ELSE IF np \in {"INVALID", "INVALID_BLOCK_HASH"} THEN "PAYLOAD_INVALIDATED"
    ELSE IF np \in {"SYNCING", "ACCEPTED"} /\ ~is_full THEN "PAYLOAD_NOT_VALIDATED"
    ELSE IF np \notin {"SYNCING", "ACCEPTED", "VALID"} THEN "UNKNOWN"
    ELSE IF is_full THEN forkchoice_policy(fcu, optimistic_import)
    ELSE "None"

\* what body validation can return, over every pair of engine answers and both
\* settings of optimistic_import
BodyVerdicts(is_full, has_payload) ==
    {validate_block_body(is_full, has_payload, np, fcu, optimistic_import) :
        np \in Statuses, fcu \in Statuses, optimistic_import \in BOOLEAN}

(***************************************************************************)
(* The caller's view of the block tree: the height at which a block's       *)
(* ancestry leaves the ancestry of the current peak (the fork hint).        *)
(***************************************************************************)
RECURSIVE AncestorAt(_, _)
AncestorAt(b, h) ==
    IF b = GENESIS_CHALLENGE \/ Height(b) < h THEN NoHash
    ELSE IF Height(b) = h THEN b
    ELSE AncestorAt(Prev(b), h)

RECURSIVE TrueForkHeight(_, _, _)
TrueForkHeight(b, p, h) ==
    IF h < 0 THEN 0 - 1
    ELSE IF AncestorAt(b, h) # NoHash /\ AncestorAt(b, h) = AncestorAt(p, h) THEN h
    ELSE TrueForkHeight(b, p, h - 1)

ForkHints(b) ==
    {NoHeight} \cup
    (IF peak_height = NoHeight \/ height_to_hash(peak_height) = NoHash THEN {}
     ELSE {TrueForkHeight(b, height_to_hash(peak_height), Height(b))} \ {0 - 1})

(***************************************************************************)
(* receive_block, one action per stretch of code between two awaits.        *)
(***************************************************************************)
ChainState ==
    [db |-> db, block_cache |-> block_cache, block_records |-> block_records,
     heights_in_cache |-> heights_in_cache, height_map |-> height_map,
     peak_height |-> peak_height]

NoPre == [db |-> EmptyDb, block_cache |-> {}, block_records |-> [x \in {} |-> NoRecord],
          heights_in_cache |-> [x \in {} |-> {}], height_map |-> EmptyMap,
          peak_height |-> NoHeight]

NoCur == [block |-> NoHash, record |-> NoRecord, genesis |-> FALSE,
          fork_point_with_peak |-> NoHeight, records |-> <<>>, summary |-> NoSummary]

Result(op, outcome, err, summary) ==
    [op |-> op, outcome |-> outcome, err |-> err, summary |-> summary]

\* the checks of receive_block without the test for a block that is already cached
receive_block_checks_no_cache_test(block, pre_validation_error) ==
    LET genesis == Height(block) = 0 IN
    IF ~contains_block(Prev(block)) /\ ~genesis THEN "DISCONNECTED_BLOCK"
    ELSE IF ~genesis /\ block_record(Prev(block)).height + 1 # Height(block) THEN "INVALID_HEIGHT"
    ELSE IF pre_validation_error # "None" THEN pre_validation_error
    ELSE "None"

\* lines 209-230: the checks made before the first await
receive_block_checks(block, pre_validation_error) ==
    LET genesis == Height(block) = 0 IN
    IF contains_block(block) THEN "ALREADY_HAVE_BLOCK"
    ELSE IF ~contains_block(Prev(block)) /\ ~genesis THEN "DISCONNECTED_BLOCK"
    ELSE IF ~genesis /\ block_record(Prev(block)).height + 1 # Height(block) THEN "INVALID_HEIGHT"
    ELSE IF pre_validation_error # "None" THEN pre_validation_error
    ELSE "None"

PreValidationErrors == {"None", "INVALID_POSPACE"}

\* receive_block answering a missing parent with INVALID_BLOCK
receive_block_missing_parent_invalid(block, pre_validation_error, fork_point_with_peak) ==
    /\ pc = "idle"
    /\ UNCHANGED <<call, world, bad_batches, faults, db, tx, block_cache, block_records, heights_in_cache,
                   height_map, peak_height>>
    /\ LET check == receive_block_checks(block, pre_validation_error) IN
       IF check = "ALREADY_HAVE_BLOCK"
       THEN /\ pc' = "idle" /\ cur' = NoCur /\ pre' = NoPre
            /\ ret' = Result("receive_block", "ALREADY_HAVE_BLOCK", "None", NoSummary)
       ELSE IF check # "None"
       THEN /\ pc' = "idle" /\ cur' = NoCur /\ pre' = NoPre
            /\ ret' = Result("receive_block", "INVALID_BLOCK", check, NoSummary)
       ELSE /\ pc' = "validate_block_body"
            /\ pre' = ChainState
            /\ cur' = [NoCur EXCEPT !.block = block,
                                    !.record = block_to_block_record(block, RequiredIters(block)),
                                    !.genesis = (Height(block) = 0),
                                    !.fork_point_with_peak = fork_point_with_peak]
            /\ ret' = Result("receive_block", "PENDING", "None", NoSummary)

receive_block(block, pre_validation_error, fork_point_with_peak) ==
    /\ pc = "idle"
    /\ UNCHANGED <<call, world, bad_batches, faults, db, tx, block_cache, block_records, heights_in_cache,
                   height_map, peak_height>>
    /\ LET check == receive_block_checks(block, pre_validation_error) IN
       IF check = "ALREADY_HAVE_BLOCK"
       THEN /\ pc' = "idle" /\ cur' = NoCur /\ pre' = NoPre
            /\ ret' = Result("receive_block", "ALREADY_HAVE_BLOCK", "None", NoSummary)
       ELSE IF check = "DISCONNECTED_BLOCK"
       THEN /\ pc' = "idle" /\ cur' = NoCur /\ pre' = NoPre
            /\ ret' = Result("receive_block", "DISCONNECTED_BLOCK",
                             "INVALID_PREV_BLOCK_HASH", NoSummary)
       ELSE IF check # "None"
       THEN /\ pc' = "idle" /\ cur' = NoCur /\ pre' = NoPre
            /\ ret' = Result("receive_block", "INVALID_BLOCK", check, NoSummary)
       ELSE /\ pc' = "validate_block_body"
            /\ pre' = ChainState
            /\ cur' = [NoCur EXCEPT !.block = block,
                                    !.record = block_to_block_record(block, RequiredIters(block)),
                                    !.genesis = (Height(block) = 0),
                                    !.fork_point_with_peak = fork_point_with_peak]
            /\ ret' = Result("receive_block", "PENDING", "None", NoSummary)

\* receive_block inserting the record into the cache before the body is validated
receive_block_body_caches_first ==
    /\ pc = "validate_block_body"
    /\ \E error_code \in BodyVerdicts(TRUE, HasPayload(cur.block)) :
         IF error_code # "None"
         THEN /\ pc' = "idle" /\ cur' = NoCur /\ pre' = NoPre
              /\ ret' = Result("receive_block", "INVALID_BLOCK", error_code, NoSummary)
         ELSE /\ pc' = "writer" /\ UNCHANGED <<cur, ret, pre>>
    /\ block_records' = add_block_record(Cache, cur.record).block_records
    /\ heights_in_cache' = add_block_record(Cache, cur.record).heights_in_cache
    /\ UNCHANGED <<call, world, bad_batches, faults, db, tx, block_cache, height_map, peak_height>>

\* lines 232-239: await validate_block_body
receive_block_body ==
    /\ pc = "validate_block_body"
    /\ \E error_code \in BodyVerdicts(TRUE, HasPayload(cur.block)) :
         IF error_code # "None"
         THEN /\ pc' = "idle" /\ cur' = NoCur /\ pre' = NoPre
              /\ ret' = Result("receive_block", "INVALID_BLOCK", error_code, NoSummary)
         ELSE /\ pc' = "writer" /\ UNCHANGED <<cur, ret, pre>>
    /\ UNCHANGED <<call, world, bad_batches, faults, db, tx, block_cache, block_records, heights_in_cache,
                   height_map, peak_height>>

\* line 242: entering the writer transaction
writer_enter ==
    /\ pc = "writer"
    /\ tx' = db
    /\ pc' = "add_full_block"
    /\ UNCHANGED <<call, world, bad_batches, faults, db, block_cache, block_records, heights_in_cache,
                   height_map, peak_height, cur, pre, ret>>

\* lines 262-268 and the exit of the writer scope with an exception in flight:
\* rollback_cache_block, the transaction is rolled back, the exception leaves the call
Handler ==
    /\ block_cache' = rollback_cache_block(block_cache, cur.block)
    /\ tx' = EmptyDb
    /\ pc' = "idle" /\ cur' = NoCur /\ pre' = NoPre
    /\ ret' = Result("receive_block", "RAISED", pc, NoSummary)

\* line 246
receive_block_add_full_block ==
    /\ pc = "add_full_block"
    /\ tx' = add_full_block(tx, cur.block, cur.record)
    /\ block_cache' = block_cache \cup {cur.block}
    /\ pc' = "reconsider_peak"
    /\ UNCHANGED <<call, world, bad_batches, faults, db, block_records, heights_in_cache, height_map, peak_height,
                   cur, pre, ret>>

\* lines 247-249 discarding the records returned by _reconsider_peak
receive_block_reconsider_peak_drops_records ==
    /\ pc = "reconsider_peak"
    /\ LET r == reconsider_peak(tx, cur.record, cur.genesis, cur.fork_point_with_peak) IN
       IF r.ok
       THEN /\ tx' = r.tx
            /\ cur' = [cur EXCEPT !.summary = r.summary]
            /\ pc' = "update_cache"
            /\ UNCHANGED <<block_cache, ret, pre>>
       ELSE Handler
    /\ UNCHANGED <<call, world, bad_batches, faults, db, block_records, heights_in_cache, height_map, peak_height>>

\* lines 247-249
receive_block_reconsider_peak ==
    /\ pc = "reconsider_peak"
    /\ LET r == reconsider_peak(tx, cur.record, cur.genesis, cur.fork_point_with_peak) IN
       IF r.ok
       THEN /\ tx' = r.tx
            /\ cur' = [cur EXCEPT !.records = r.records, !.summary = r.summary]
            /\ pc' = "update_cache"
            /\ UNCHANGED <<block_cache, ret, pre>>
       ELSE Handler
    /\ UNCHANGED <<call, world, bad_batches, faults, db, block_records, heights_in_cache, height_map, peak_height>>

\* lines 253-261 without the rollback of the height map to the fork height
receive_block_update_cache_no_rollback ==
    /\ pc = "update_cache"
    /\ LET c == add_block_record(Cache, cur.record)
       IN /\ block_records' = c.block_records
          /\ heights_in_cache' = c.heights_in_cache
          /\ height_map' = update_heights(height_map, cur.records, Len(cur.records))
    /\ pc' = "commit"
    /\ UNCHANGED <<call, world, bad_batches, faults, db, tx, block_cache, peak_height, cur, pre, ret>>

\* lines 253-261
receive_block_update_cache ==
    /\ pc = "update_cache"
    /\ LET c == add_block_record(Cache, cur.record)
           hm == IF cur.summary # NoSummary
                 THEN height_map_rollback(height_map, cur.summary.fork_height)
                 ELSE height_map
       IN /\ block_records' = c.block_records
          /\ heights_in_cache' = c.heights_in_cache
          /\ height_map' = update_heights(hm, cur.records, Len(cur.records))
    /\ pc' = "commit"
    /\ UNCHANGED <<call, world, bad_batches, faults, db, tx, block_cache, peak_height, cur, pre, ret>>

\* the commit leaving the stored peak pointer as it was
writer_commit_keeps_peak ==
    /\ pc = "commit"
    /\ db' = [tx EXCEPT !.peak = db.peak]
    /\ tx' = EmptyDb
    /\ pc' = "publish"
    /\ UNCHANGED <<call, world, bad_batches, faults, block_cache, block_records, heights_in_cache, height_map,
                   peak_height, cur, pre, ret>>

\* the normal exit of the writer scope: the transaction commits
writer_commit ==
    /\ pc = "commit"
    /\ db' = tx
    /\ tx' = EmptyDb
    /\ pc' = "publish"
    /\ UNCHANGED <<call, world, bad_batches, faults, block_cache, block_records, heights_in_cache, height_map,
                   peak_height, cur, pre, ret>>

\* line 273 publishing the fork height in place of the new block's height
receive_block_publish_fork_height ==
    /\ pc = "publish"
    /\ peak_height' = IF cur.summary # NoSummary THEN cur.summary.fork_height ELSE peak_height
    /\ pc' = "maybe_flush"
    /\ UNCHANGED <<call, world, bad_batches, faults, db, tx, block_cache, block_records,
                   heights_in_cache, height_map, cur, pre, ret>>

\* lines 270-276: publish the peak height, then await maybe_flush
receive_block_publish ==
    /\ pc = "publish"
    /\ peak_height' = IF cur.summary # NoSummary THEN cur.record.height ELSE peak_height
    /\ pc' = "maybe_flush"
    /\ UNCHANGED <<call, world, bad_batches, faults, db, tx, block_cache, block_records, heights_in_cache,
                   height_map, cur, pre, ret>>

\* the return that reports NEW_PEAK for a block added as an orphan as well
receive_block_return_always_new_peak ==
    /\ pc = "maybe_flush"
    /\ pc' = "idle" /\ cur' = NoCur /\ pre' = NoPre
    /\ ret' = Result("receive_block", "NEW_PEAK", "None",
                     IF cur.summary # NoSummary THEN cur.summary
                     ELSE [peak |-> cur.block, fork_height |-> 0])
    /\ UNCHANGED <<call, world, bad_batches, faults, db, tx, block_cache, block_records, heights_in_cache,
                   height_map, peak_height>>

\* lines 276-281
receive_block_return ==
    /\ pc = "maybe_flush"
    /\ pc' = "idle" /\ cur' = NoCur /\ pre' = NoPre
    /\ ret' = IF cur.summary # NoSummary
              THEN Result("receive_block", "NEW_PEAK", "None", cur.summary)
              ELSE Result("receive_block", "ADDED_AS_ORPHAN", "None", NoSummary)
    /\ UNCHANGED <<call, world, bad_batches, faults, db, tx, block_cache, block_records, heights_in_cache,
                   height_map, peak_height>>

(***************************************************************************)
(* Exceptions and cancellation of an in-flight receive_block.               *)
(***************************************************************************)
MaxFaults == 1          \* exceptions and cancellations injected in one behaviour

\* a Block Store operation of lines 246-249 raises, or the task is cancelled
\* while it awaits one
raise_in_transaction ==
    /\ faults < MaxFaults
    /\ faults' = faults + 1
    /\ pc \in {"add_full_block", "reconsider_peak"}
    /\ Handler
    /\ UNCHANGED <<call, world, bad_batches, db, block_records, heights_in_cache, height_map, peak_height>>

\* lines 253-261 raise after the cache insert: in height_map.rollback (n = -1)
\* or in the update_height call that follows n completed ones
raise_in_update_cache ==
    /\ faults < MaxFaults
    /\ faults' = faults + 1
    /\ pc = "update_cache"
    /\ cur.summary # NoSummary
    /\ \E n \in (0 - 1) .. Len(cur.records) - 1 :
         LET c == add_block_record(Cache, cur.record) IN
         /\ block_records' = c.block_records
         /\ heights_in_cache' = c.heights_in_cache
         /\ height_map' = IF n < 0 THEN height_map
                          ELSE update_heights(
                                   height_map_rollback(height_map, cur.summary.fork_height),
                                   cur.records, n)
    /\ Handler
    /\ UNCHANGED <<call, world, bad_batches, db, peak_height>>

\* the commit raises, or the task is cancelled while the writer scope exits:
\* the transaction is rolled back; lines 262-268 do not run (the try is inside the scope)
commit_fails ==
    /\ faults < MaxFaults
    /\ faults' = faults + 1
    /\ pc = "commit"
    /\ tx' = EmptyDb
    /\ pc' = "idle" /\ cur' = NoCur /\ pre' = NoPre
    /\ ret' = Result("receive_block", "RAISED", pc, NoSummary)
    /\ UNCHANGED <<call, world, bad_batches, db, block_cache, block_records, heights_in_cache, height_map,
                   peak_height>>

\* a failure outside the writer scope that puts the published peak height back
raise_outside_transaction_reverts_peak ==
    /\ faults < MaxFaults
    /\ faults' = faults + 1
    /\ pc \in {"validate_block_body", "writer", "maybe_flush"}
    /\ pc' = "idle" /\ cur' = NoCur /\ pre' = NoPre
    /\ ret' = Result("receive_block", "RAISED", pc, NoSummary)
    /\ peak_height' = pre.peak_height
    /\ UNCHANGED <<call, world, bad_batches, db, tx, block_cache, block_records, heights_in_cache,
                   height_map>>

\* cancellation before the writer scope is entered, or a failure of maybe_flush
raise_outside_transaction ==
    /\ faults < MaxFaults
    /\ faults' = faults + 1
    /\ pc \in {"validate_block_body", "writer", "maybe_flush"}
    /\ pc' = "idle" /\ cur' = NoCur /\ pre' = NoPre
    /\ ret' = Result("receive_block", "RAISED", pc, NoSummary)
    /\ UNCHANGED <<call, world, bad_batches, db, tx, block_cache, block_records, heights_in_cache, height_map,
                   peak_height>>

(***************************************************************************)
(* pre_validate_blocks_multiprocessing.  Everything up to the dispatch to   *)
(* the pool runs without an await.  fail_at names the block (0: none) whose *)
(* tentative check fails, kind the check.                                   *)
(***************************************************************************)
MaxBlocks == 2          \* longest list handed to pre-validation

MaxBadBatches == 1      \* lists with a failing block that peers send in one behaviour

\* INVALID_SUB_EPOCH_SUMMARY: block_to_block_record raises ValueError (line 199) or the
\* summary differs from the weight proof's (line 205)
TentativeFailures == {"INVALID_POSPACE", "INVALID_SUB_EPOCH_SUMMARY"}

RECURSIVE remove_tentative(_, _, _, _)
\* lines 177-179: remove blocks i..Len that were absent before and are in the view now
remove_tentative(c, blocks, was_present, i) ==
    IF i > Len(blocks) THEN c
    ELSE remove_tentative(
             IF ~was_present[i] /\ blocks[i] \in DOMAIN c.block_records
             THEN remove_block_record(c, blocks[i]) ELSE c,
             blocks, was_present, i + 1)

RECURSIVE pre_validate_loop(_, _, _, _, _, _)
\* lines 156-217
pre_validate_loop(c, blocks, was_present, i, fail_at, kind) ==
    IF i > Len(blocks) THEN [cache |-> c, outcome |-> "None"]
    ELSE IF Height(blocks[i]) # 0 /\ Prev(blocks[i]) \notin DOMAIN c.block_records
    THEN [cache |-> c, outcome |-> "AssertionError"]
    ELSE IF fail_at = i /\ kind = "INVALID_POSPACE"
    THEN [cache |-> remove_tentative(c, blocks, was_present, 1), outcome |-> "INVALID_POSPACE"]
    ELSE IF fail_at = i
    THEN [cache |-> c, outcome |-> "INVALID_SUB_EPOCH_SUMMARY"]
    ELSE pre_validate_loop(
             IF blocks[i] \notin DOMAIN c.block_records
             THEN add_block_record(c, block_to_block_record(blocks[i], RequiredIters(blocks[i])))
             ELSE c,
             blocks, was_present, i + 1, fail_at, kind)

\* lines 130-223: the block_records view when the call returns or raises
pre_validate_view(c, blocks, fail_at, kind) ==
    IF Height(blocks[1]) > 0 /\ Prev(blocks[1]) \notin DOMAIN c.block_records
    THEN [cache |-> c, outcome |-> "INVALID_PREV_BLOCK_HASH"]
    ELSE LET was_present == [i \in 1 .. Len(blocks) |-> blocks[i] \in DOMAIN c.block_records]
             loop == pre_validate_loop(c, blocks, was_present, 1, fail_at, kind)
         IN  IF loop.outcome # "None" THEN loop
             ELSE [cache |-> remove_tentative(loop.cache, blocks,
                                              [i \in 1 .. Len(blocks) |-> was_present[i]], 1),
                   outcome |-> "None"]

pre_validate_blocks_multiprocessing(blocks, fail_at, kind) ==
    /\ pc = "idle"
    /\ pre' = NoPre
    /\ LET v == pre_validate_view(Cache, blocks, fail_at, kind) IN
       /\ block_records' = v.cache.block_records
       /\ heights_in_cache' = v.cache.heights_in_cache
       /\ ret' = Result("pre_validate",
                        IF v.outcome = "AssertionError" THEN "RAISED" ELSE "RETURNED",
                        v.outcome, NoSummary)
    /\ bad_batches' = IF fail_at > 0 THEN bad_batches + 1 ELSE bad_batches
    /\ UNCHANGED <<call, world, faults, db, tx, block_cache, height_map, peak_height, pc, cur>>

\* the lists peers send: runs of consecutive blocks of one chain
BlockLists ==
    {<<b>> : b \in Blocks} \cup
    (IF MaxBlocks < 2 THEN {}
     ELSE {<<Prev(b), b>> : b \in {x \in Blocks : Prev(x) \in Blocks}}) \cup
    (IF MaxBlocks < 3 THEN {}
     ELSE {<<Prev(Prev(b)), Prev(b), b>> :
             b \in {x \in Blocks : Prev(x) \in Blocks /\ Prev(Prev(x)) \in Blocks}})

PreValidate ==
    \E blocks \in BlockLists, fail_at \in 0 .. MaxBlocks, kind \in TentativeFailures :
        /\ fail_at <= Len(blocks)
        /\ fail_at = 0 => kind = "INVALID_POSPACE"
        /\ fail_at > 0 => bad_batches < MaxBadBatches
        /\ pre_validate_blocks_multiprocessing(blocks, fail_at, kind)

(***************************************************************************)
(* Cache maintenance.                                                       *)
(***************************************************************************)
RECURSIVE clean_block_record(_, _)
clean_block_record(c, height) ==
    IF height < 0 \/ height \notin DOMAIN c.heights_in_cache THEN c
    ELSE LET cleaned ==
                 [block_records |->
                      Restrict(c.block_records,
                               DOMAIN c.block_records \ c.heights_in_cache[height]),
                  heights_in_cache |->
                      Restrict(c.heights_in_cache, DOMAIN c.heights_in_cache \ {height})]
         IN  IF height = 0 THEN cleaned ELSE clean_block_record(cleaned, height - 1)

clean_block_records ==
    /\ pc = "idle"
    /\ pre' = NoPre
    /\ IF Cardinality(DOMAIN block_records) < BLOCKS_CACHE_SIZE
       THEN /\ UNCHANGED <<block_records, heights_in_cache>>
            /\ ret' = Result("clean_block_records", "RETURNED", "None", NoSummary)
       ELSE IF peak_height = NoHeight
       THEN /\ UNCHANGED <<block_records, heights_in_cache>>
            /\ ret' = Result("clean_block_records", "RAISED", "AssertionError", NoSummary)
       ELSE LET c == IF peak_height - BLOCKS_CACHE_SIZE < 0 THEN Cache
                     ELSE clean_block_record(Cache, peak_height - BLOCKS_CACHE_SIZE)
            IN /\ block_records' = c.block_records
               /\ heights_in_cache' = c.heights_in_cache
               /\ ret' = Result("clean_block_records", "RETURNED", "None", NoSummary)
    /\ UNCHANGED <<call, world, bad_batches, faults, db, tx, block_cache, height_map, peak_height, pc, cur>>

\* block_store.get_block_records_in_range: every stored row of the height range
get_block_records_in_range(d, start, stop) ==
    {h \in DOMAIN d.rows : d.rows[h].height >= start /\ d.rows[h].height <= stop}

warmup(fork_point) ==
    /\ pc = "idle"
    /\ pre' = NoPre
    /\ LET loaded == IF peak_height = NoHeight THEN {}
                     ELSE get_block_records_in_range(
                              db, Max(fork_point - BLOCKS_CACHE_SIZE, 0), fork_point)
       IN /\ block_records' =
                 [h \in DOMAIN block_records \cup loaded |->
                     IF h \in loaded THEN db.rows[h] ELSE block_records[h]]
          /\ heights_in_cache' =
                 [ht \in DOMAIN heights_in_cache \cup {db.rows[h].height : h \in loaded} |->
                     (IF ht \in DOMAIN heights_in_cache THEN heights_in_cache[ht] ELSE {})
                     \cup {h \in loaded : db.rows[h].height = ht}]
    /\ ret' = Result("warmup", "RETURNED", "None", NoSummary)
    /\ UNCHANGED <<call, world, bad_batches, faults, db, tx, block_cache, height_map, peak_height, pc, cur>>

Warmup == \E fork_point \in 0 .. (world.alen + world.blen) : warmup(fork_point)

ReceiveBlock ==
    \E block \in Blocks, e \in PreValidationErrors :
        \E hint \in ForkHints(block) : receive_block(block, e, hint)

NoResult == Result("none", "NONE", "None", NoSummary)

NoCall == [op |-> "none"]

InitWith(w) ==
    /\ world = w
    /\ db = EmptyDb
    /\ tx = EmptyDb
    /\ block_cache = {}
    /\ block_records = [x \in {} |-> NoRecord]
    /\ heights_in_cache = [x \in {} |-> {}]
    /\ height_map = EmptyMap
    /\ peak_height = NoHeight
    /\ pc = "idle"
    /\ cur = NoCur
    /\ pre = NoPre
    /\ ret = NoResult
    /\ bad_batches = 0
    /\ faults = 0

Init == call = NoCall /\ \E w \in {ForkWorld, AltWorld} : InitWith(w)

ReceiveBlockSteps ==
    \/ ReceiveBlock
    \/ receive_block_body
    \/ writer_enter
    \/ receive_block_add_full_block
    \/ receive_block_reconsider_peak
    \/ receive_block_update_cache
    \/ writer_commit
    \/ receive_block_publish
    \/ receive_block_return

Faults ==
    \/ raise_in_transaction
    \/ raise_in_update_cache
    \/ commit_fails
    \/ raise_outside_transaction

\* every call runs to its return; no storage failure, no cancellation
Next ==
    \/ ReceiveBlockSteps
    \/ PreValidate
    \/ clean_block_records
    \/ Warmup

Spec == Init /\ [][Next]_vars

\* receive_block calls that may also raise or be cancelled at their awaits
NextFaults ==
    \/ ReceiveBlockSteps
    \/ Faults

SpecFaults == Init /\ [][NextFaults]_vars

\* the reorg scenario: chain A at heights 0 .. 10, chain B at heights 6 .. 11
InitReorg == call = NoCall /\ InitWith(ReorgWorld)

NextReorg == ReceiveBlockSteps

SpecReorg == InitReorg /\ [][NextReorg]_vars

(***************************************************************************)
(* validate_block_body called on its own, for a full or an unfinished       *)
(* block, with every pair of engine answers and every setting of the        *)
(* optimistic_import option.                                                *)
(***************************************************************************)
\* what an Engine API call can end with: a status, or no reply within the timeout
EngineReplies == Statuses \cup {"timeout"}

\* ExecutionClient.new_payload / forkchoice_update: the status handed to the caller;
\* a call that timed out hands over a status that is none of the recognised ones
engine_status(reply) == IF reply = "timeout" THEN "TIMEOUT" ELSE reply

\* the option read with the default False
config_get_optimistic_import_off(config) == config = "True"

\* line 49: config.get("optimistic_import", True)
config_get_optimistic_import(config) == IF config = "absent" THEN TRUE ELSE config = "True"

InitBody ==
    /\ InitWith(ForkWorld)
    /\ \E is_full \in BOOLEAN, has_payload \in BOOLEAN, np \in EngineReplies,
          fcu \in EngineReplies, config \in {"absent", "True", "False"} :
         call = [op |-> "validate_block_body", is_full |-> is_full,
                 has_payload |-> has_payload, new_payload |-> np,
                 forkchoice_update |-> fcu, config |-> config,
                 pc |-> "called", result |-> "PENDING", calls |-> <<>>]

\* new_payload called whether or not the block carries a payload
new_payload_calls_without_payload(has_payload) == <<"new_payload">>

\* lines 35-38: the calls of new_payload that validate_block_body makes
new_payload_calls(has_payload) == IF has_payload THEN <<"new_payload">> ELSE <<>>

\* forkchoice_update called whatever new_payload answered
forkchoice_update_calls_ungated(is_full, has_payload, np) ==
    IF has_payload /\ is_full THEN <<"forkchoice_update">> ELSE <<>>

\* lines 39-51: the calls of forkchoice_update it makes after new_payload answered np
forkchoice_update_calls(is_full, has_payload, np) ==
    IF has_payload /\ np \in {"SYNCING", "ACCEPTED", "VALID"} /\ is_full
    THEN <<"forkchoice_update">> ELSE <<>>

\* validate_block_body taking the new_payload status for VALID without reading it
ValidateBlockBody_new_payload_unread ==
    /\ call.pc = "called"
    /\ call' = [call EXCEPT
                  !.pc = "returned",
                  !.result = validate_block_body(
                                 call.is_full, call.has_payload, "VALID",
                                 engine_status(call.forkchoice_update),
                                 config_get_optimistic_import(call.config)),
                  !.calls = new_payload_calls(call.has_payload) \o
                            forkchoice_update_calls(call.is_full, call.has_payload, "VALID")]
    /\ UNCHANGED chainvars

ValidateBlockBody ==
    /\ call.pc = "called"
    /\ call' = [call EXCEPT
                  !.pc = "returned",
                  !.result = validate_block_body(
                                 call.is_full, call.has_payload,
                                 engine_status(call.new_payload),
                                 engine_status(call.forkchoice_update),
                                 config_get_optimistic_import(call.config)),
                  !.calls = new_payload_calls(call.has_payload) \o
                            forkchoice_update_calls(call.is_full, call.has_payload,
                                                    engine_status(call.new_payload))]
    /\ UNCHANGED chainvars

NextBody == ValidateBlockBody

SpecBody == InitBody /\ [][NextBody]_vars

(***************************************************************************)
(* Block rewards (corpochain/consensus/block_rewards.py).                   *)
(***************************************************************************)
_corpochain_to_gwei == 1000000000

_blocks_per_year == 4608 * 2 * 365

\* _calculate_block_reward with the first step one block late
_calculate_block_reward_late_step(height) ==
    IF height <= 3 * _blocks_per_year THEN 2 * _corpochain_to_gwei
    ELSE IF height < 6 * _blocks_per_year THEN 1 * _corpochain_to_gwei
    ELSE IF height < 9 * _blocks_per_year THEN _corpochain_to_gwei \div 2
    ELSE IF height < 12 * _blocks_per_year THEN _corpochain_to_gwei \div 4
    ELSE IF height < 15 * _blocks_per_year THEN _corpochain_to_gwei \div 8
    ELSE 0

\* uint64(0.5 * g), uint64(0.25 * g), uint64(0.125 * g): the factor is a power of
\* two, so the float product is exact and the conversion to uint64 truncates it;
\* that is the integer quotient by 2, 4, 8
_calculate_block_reward(height) ==
    IF height < 3 * _blocks_per_year THEN 2 * _corpochain_to_gwei
    ELSE IF height < 6 * _blocks_per_year THEN 1 * _corpochain_to_gwei
    ELSE IF height < 9 * _blocks_per_year THEN _corpochain_to_gwei \div 2
    ELSE IF height < 12 * _blocks_per_year THEN _corpochain_to_gwei \div 4
    ELSE IF height < 15 * _blocks_per_year THEN _corpochain_to_gwei \div 8
    ELSE 0

RewardWindow == 10      \* heights looked at on each side of a step of the schedule

\* the heights the reward is computed for: the first blocks and the blocks around
\* each step of the schedule
RewardHeights ==
    (0 .. RewardWindow) \cup
    UNION {(k * _blocks_per_year - RewardWindow) .. (k * _blocks_per_year + RewardWindow) :
             k \in {3, 6, 9, 12, 15}}

InitRewards ==
    /\ InitWith(ForkWorld)
    /\ \E height \in RewardHeights :
         call = [op |-> "_calculate_block_reward", height |-> height,
                 pc |-> "called", result |-> 0]

CalculateBlockReward ==
    /\ call.pc = "called"
    /\ call' = [call EXCEPT !.pc = "returned",
                            !.result = _calculate_block_reward(call.height)]
    /\ UNCHANGED chainvars

SpecRewards == InitRewards /\ [][CalculateBlockReward]_vars

(***************************************************************************)
(* Withdrawal derivation (create_withdrawals).                              *)
(***************************************************************************)
PREFARM_ADDRESS == "PREFARM_ADDRESS"

PREFARM_AMOUNT == 1     \* constants.PREFARM_AMOUNT, in whole coins

MaxChain == 3           \* longest chain of block records handed to create_withdrawals

MaxWithdrawalIndex == 2 \* largest last_withdrawal_index of prev_tx_block

NoIndex == 0 - 1        \* last_withdrawal_index is None

WithdrawalV1(index, validator_index, address, amount) ==
    [index |-> index, validator_index |-> validator_index,
     address |-> address, amount |-> amount]

\* the walk that stops at the genesis block only
walk_breaks_at_genesis_only(curr, blocks) == curr.prev_hash = GENESIS_CHALLENGE

\* the two breaks of the while loop: the genesis block was rewarded, or the
\* record below is a transaction block
walk_breaks(curr, blocks) ==
    \/ curr.prev_hash = GENESIS_CHALLENGE
    \/ blocks[curr.prev_hash].is_transaction_block

\* the while loop of create_withdrawals, from the record curr on
RECURSIVE reward_walk(_, _, _)
reward_walk(curr, blocks, next_wd_index) ==
    LET w == WithdrawalV1(next_wd_index, 1, curr.coinbase,
                          _calculate_block_reward(curr.height))
    IN  IF walk_breaks(curr, blocks) THEN <<w>>
        ELSE <<w>> \o reward_walk(blocks[curr.prev_hash], blocks, next_wd_index + 1)

\* create_withdrawals that gives the first reward the index of the prefarm
create_withdrawals_prefarm_index_reused(prev_tx_block, blocks) ==
    LET first_index == IF prev_tx_block.last_withdrawal_index = NoIndex THEN 0
                       ELSE prev_tx_block.last_withdrawal_index + 1
    IN  IF prev_tx_block.height = 0
        THEN <<WithdrawalV1(first_index, 0, PREFARM_ADDRESS,
                            PREFARM_AMOUNT * _corpochain_to_gwei)>>
             \o reward_walk(prev_tx_block, blocks, first_index)
        ELSE reward_walk(prev_tx_block, blocks, first_index)

create_withdrawals(prev_tx_block, blocks) ==
    LET first_index == IF prev_tx_block.last_withdrawal_index = NoIndex THEN 0
                       ELSE prev_tx_block.last_withdrawal_index + 1
    IN  IF prev_tx_block.height = 0
        THEN <<WithdrawalV1(first_index, 0, PREFARM_ADDRESS,
                            PREFARM_AMOUNT * _corpochain_to_gwei)>>
             \o reward_walk(prev_tx_block, blocks, first_index + 1)
        ELSE reward_walk(prev_tx_block, blocks, first_index)

\* header hash of the block record at a height of the chain handed in
WdHash(height) == <<"W", height>>

\* the chains of block records create_withdrawals is called on: one that starts at
\* the genesis block, and one around the first step of the reward schedule whose
\* oldest record is a transaction block, so that the walk stays inside the records
WdChains ==
    LET chain(base, top, is_tx, coinbase, last) ==
            [h \in {WdHash(x) : x \in base .. top} |->
               [header_hash |-> h,
                height |-> h[2],
                prev_hash |-> IF h[2] = 0 THEN GENESIS_CHALLENGE ELSE WdHash(h[2] - 1),
                is_transaction_block |-> is_tx[h[2] - base],
                coinbase |-> coinbase[h[2] - base],
                last_withdrawal_index |-> IF h[2] = top THEN last ELSE NoIndex]]
        chains(base, least) ==
            UNION {{chain(base, base + n, is_tx, coinbase, last) :
                      is_tx \in {f \in [0 .. n -> BOOLEAN] : base > 0 => f[0]},
                      coinbase \in [0 .. n -> {"cb1", "cb2"}],
                      last \in {NoIndex} \cup (0 .. MaxWithdrawalIndex)} :
                   n \in least .. (MaxChain - 1)}
    IN  chains(0, 0) \cup chains(3 * _blocks_per_year - 2, 1)

\* the newest record of a chain
WdTop(blocks) ==
    CHOOSE r \in {blocks[h] : h \in DOMAIN blocks} :
        \A h \in DOMAIN blocks : blocks[h].height <= r.height

InitWithdrawals ==
    /\ InitWith(ForkWorld)
    /\ \E blocks \in WdChains :
         call = [op |-> "create_withdrawals", blocks |-> blocks,
                 prev_tx_block |-> WdTop(blocks),
                 pc |-> "called", result |-> <<>>]

CreateWithdrawals ==
    /\ call.pc = "called"
    /\ call' = [call EXCEPT !.pc = "returned",
                            !.result = create_withdrawals(call.prev_tx_block, call.blocks)]
    /\ UNCHANGED chainvars

SpecWithdrawals == InitWithdrawals /\ [][CreateWithdrawals]_vars

\* create_withdrawals taken for each transaction block of a chain in turn. The
\* chain starts with a transaction block at height 0; every block has a coinbase
\* address of its own; a transaction block's last_withdrawal_index is the index of
\* the last withdrawal made before it.
InitInTurn ==
    /\ InitWith(ForkWorld)
    /\ \E n \in 1 .. MaxChain :
         \E is_tx \in {f \in [0 .. n - 1 -> BOOLEAN] : f[0]},
            farmer \in [0 .. n - 1 -> {"cb1", "cb2"}] :
           call = [op |-> "create_withdrawals_in_turn",
                   blocks |-> [h \in {WdHash(x) : x \in 0 .. n - 1} |->
                                 [header_hash |-> h,
                                  height |-> h[2],
                                  prev_hash |-> IF h[2] = 0 THEN GENESIS_CHALLENGE
                                                ELSE WdHash(h[2] - 1),
                                  is_transaction_block |-> is_tx[h[2]],
                                  coinbase |-> <<farmer[h[2]], h[2]>>,
                                  last_withdrawal_index |-> NoIndex]],
                   done |-> NoIndex,
                   result |-> <<>>]

\* the next transaction block above the last one taken gets its withdrawals
CreateWithdrawalsInTurn ==
    /\ call.op = "create_withdrawals_in_turn"
    /\ \E h \in DOMAIN call.blocks :
         /\ call.blocks[h].is_transaction_block
         /\ call.blocks[h].height > call.done
         /\ \A o \in DOMAIN call.blocks :
               (call.blocks[o].is_transaction_block /\ call.blocks[o].height > call.done)
                   => call.blocks[o].height >= call.blocks[h].height
         /\ LET prev_tx_block ==
                    [call.blocks[h] EXCEPT
                        !.last_withdrawal_index =
                            IF call.result = <<>> THEN NoIndex
                            ELSE call.result[Len(call.result)].index]
            IN  call' = [call EXCEPT
                            !.done = call.blocks[h].height,
                            !.result = @ \o create_withdrawals(prev_tx_block, call.blocks)]
    /\ UNCHANGED chainvars

SpecInTurn == InitInTurn /\ [][CreateWithdrawalsInTurn]_vars

(***************************************************************************)
(* clean_block_record called on its own, on any contents of the cache.      *)
(***************************************************************************)
\* the blocks whose records the cache may hold when clean_block_record is called
CleanBlocks == {<<"A", h>> : h \in 0 .. MainLen - 1} \cup
               {<<"B", h>> : h \in 2 .. 1 + ForkLen}

\* Any set of records may be cached (warmup adds a range of heights to what is
\* there, clean_block_record removes a range), and a height keeps an empty entry
\* in heights_in_cache once remove_block_record took its last record.
InitClean ==
    /\ call = NoCall
    /\ world = ForkWorld
    /\ db = EmptyDb
    /\ tx = EmptyDb
    /\ block_cache = {}
    /\ height_map = EmptyMap
    /\ peak_height = NoHeight
    /\ pc = "idle"
    /\ cur = NoCur
    /\ pre = NoPre
    /\ ret = NoResult
    /\ bad_batches = 0
    /\ faults = 0
    /\ \E cached \in SUBSET CleanBlocks :
         \E removed \in SUBSET (CleanBlocks \ cached) :
            /\ block_records =
                  [b \in cached |-> block_to_block_record(b, 1 + (b[2] % 2))]
            /\ heights_in_cache =
                  [ht \in {b[2] : b \in cached \cup removed} |->
                      {b \in cached : b[2] = ht}]

call_clean_block_record(height) ==
    /\ pc = "idle"
    /\ ret = NoResult
    /\ LET c == clean_block_record(Cache, height)
       IN  /\ block_records' = c.block_records
           /\ heights_in_cache' = c.heights_in_cache
    /\ ret' = Result("clean_block_record", "RETURNED", "None", NoSummary)
    /\ UNCHANGED <<call, world, bad_batches, faults, db, tx, block_cache, height_map,
                   peak_height, pc, cur, pre>>

NextClean == \E height \in (0 - 1) .. (MainLen + ForkLen) : call_clean_block_record(height)

SpecClean == InitClean /\ [][NextClean]_vars

(***************************************************************************)
(* The writer lock.  Blockchain.create makes `lock` and leaves its use to   *)
(* the callers; two caller tasks are modelled.  Task 1 runs receive_block   *)
(* as above.  Task 2 runs a second receive_block whose payload the engine   *)
(* rejects.  Either task may call with or without the lock.                 *)
(***************************************************************************)
Tasks == {"task1", "task2"}

InitLock ==
    /\ call = [op |-> "lock", lock |-> "free", pc2 |-> "idle", cur2 |-> NoHash,
               ret2 |-> "NONE"]
    /\ InitWith(AltWorld)

TaskIdle(t) == IF t = "task1" THEN pc = "idle" ELSE call.pc2 = "idle"

\* async with blockchain.lock, entered by a caller between two calls
lock_acquire(t) ==
    /\ call.lock = "free"
    /\ TaskIdle(t)
    /\ call' = [call EXCEPT !.lock = t]
    /\ UNCHANGED chainvars

lock_release(t) ==
    /\ call.lock = t
    /\ TaskIdle(t)
    /\ call' = [call EXCEPT !.lock = "free"]
    /\ UNCHANGED chainvars

\* task 2, lines 209-230: receive_block up to its first await; nothing looks at lock
receive_block_task2(block, pre_validation_error) ==
    /\ call.pc2 = "idle"
    /\ HasPayload(block)
    /\ LET check == receive_block_checks(block, pre_validation_error) IN
       IF check = "None"
       THEN call' = [call EXCEPT !.pc2 = "validate_block_body", !.cur2 = block,
                                 !.ret2 = "PENDING"]
       ELSE call' = [call EXCEPT !.ret2 = check]
    /\ UNCHANGED chainvars

\* task 2, lines 232-239: validate_block_body returns an error
receive_block_body_task2 ==
    /\ call.pc2 = "validate_block_body"
    /\ \E error_code \in BodyVerdicts(TRUE, TRUE) \ {"None"} :
         call' = [call EXCEPT !.pc2 = "idle", !.cur2 = NoHash, !.ret2 = error_code]
    /\ UNCHANGED chainvars

NextLock ==
    \/ ReceiveBlockSteps
    \/ (\E t \in Tasks : lock_acquire(t))
    \/ (\E t \in Tasks : lock_release(t))
    \/ (\E block \in Blocks, e \in PreValidationErrors : receive_block_task2(block, e))
    \/ receive_block_body_task2

SpecLock == InitLock /\ [][NextLock]_vars

(***************************************************************************)
(* pre_validate_blocks_multiprocessing with its dispatch to the pool and    *)
(* the results it returns, on any block_records it may be handed.           *)
(***************************************************************************)
MaxListLen == 3         \* longest run of consecutive blocks handed to pre-validation

MaxBatchSize == 3       \* largest batch_size

NoIters == 0 - 1        \* required_iters is None

PreValidationResult(error, required_iters) ==
    [error |-> error, required_iters |-> required_iters]

Min(a, b) == IF a <= b THEN a ELSE b

\* get_next_sub_slot_iters_and_difficulty: the difficulty and the sub-slot
\* iterations expected of a block, which depend on the chain it extends
Difficulty(b) ==
    CASE b[1] = "B" -> world.bdiff
      [] b[1] = "C" -> world.cdiff
      [] OTHER -> 1

SubSlotIters(b) == 8 * Difficulty(b) + Height(b) \div 2

\* lines 59-80: one worker call; verdict[b] is what header validation does with b
batch_pre_validate_blocks(full_blocks, expected_difficulty, expected_sub_slot_iters, verdict) ==
    [i \in 1 .. Len(full_blocks) |->
        IF verdict[full_blocks[i]] = "exception" THEN PreValidationResult("UNKNOWN", NoIters)
        ELSE IF verdict[full_blocks[i]] # "None"
        THEN PreValidationResult(verdict[full_blocks[i]], NoIters)
        ELSE PreValidationResult("None", RequiredIters(full_blocks[i]))]

\* dispatch that hands every batch the expected values of the first blocks of the list
dispatch_first_diffs(blocks, diff_ssis, batch_size) ==
    [k \in 1 .. (Len(blocks) + batch_size - 1) \div batch_size |->
        LET i == (k - 1) * batch_size
            end_i == Min(i + batch_size, Len(blocks))
        IN  [blocks |-> SubSeq(blocks, i + 1, end_i),
             expected_difficulty |-> [j \in 1 .. end_i - i |-> diff_ssis[j][1]],
             expected_sub_slot_iters |-> [j \in 1 .. end_i - i |-> diff_ssis[j][2]]]]

\* lines 232-266: the arguments of the worker calls, one per batch, in order
dispatch(blocks, diff_ssis, batch_size) ==
    [k \in 1 .. (Len(blocks) + batch_size - 1) \div batch_size |->
        LET i == (k - 1) * batch_size
            end_i == Min(i + batch_size, Len(blocks))
        IN  [blocks |-> SubSeq(blocks, i + 1, end_i),
             expected_difficulty |-> [j \in 1 .. end_i - i |-> diff_ssis[i + j][1]],
             expected_sub_slot_iters |-> [j \in 1 .. end_i - i |-> diff_ssis[i + j][2]]]]

RECURSIVE Flatten(_)
\* lines 268-273: the results of the batches, in the order of the futures
Flatten(batch_results) ==
    IF batch_results = <<>> THEN <<>>
    ELSE Head(batch_results) \o Flatten(Tail(batch_results))

\* gather that returns the results of the batches in the reverse order
gather_reversed(futures, verdict) ==
    [k \in 1 .. Len(futures) |->
        batch_pre_validate_blocks(futures[Len(futures) + 1 - k].blocks,
                                  futures[Len(futures) + 1 - k].expected_difficulty,
                                  futures[Len(futures) + 1 - k].expected_sub_slot_iters,
                                  verdict)]

gather(futures, verdict) ==
    [k \in 1 .. Len(futures) |->
        batch_pre_validate_blocks(futures[k].blocks, futures[k].expected_difficulty,
                                  futures[k].expected_sub_slot_iters, verdict)]

IsRun(blocks) == \A i \in 2 .. Len(blocks) : Prev(blocks[i]) = blocks[i - 1]

\* the lists handed in: runs of consecutive blocks, and pairs of unrelated blocks
PreValidateLists ==
    {blocks \in UNION {[1 .. n -> Blocks] : n \in 1 .. MaxListLen} :
        IsRun(blocks) \/ (Len(blocks) = 2 /\ blocks[1] # blocks[2])}

\* block_records holds the records of the first blocks of the main chain
InitPreValidate ==
    /\ call = [op |-> "pre_validate_blocks_multiprocessing", pc |-> "idle",
               blocks |-> <<>>, batch_size |-> 0, fail_at |-> 0, kind |-> "None",
               verdict |-> <<>>, known |-> {}, outcome |-> "NONE", dispatched |-> <<>>,
               results |-> <<>>]
    /\ world = ForkWorld
    /\ db = EmptyDb
    /\ tx = EmptyDb
    /\ block_cache = {}
    /\ height_map = EmptyMap
    /\ peak_height = NoHeight
    /\ pc = "idle"
    /\ cur = NoCur
    /\ pre = NoPre
    /\ ret = NoResult
    /\ bad_batches = 0
    /\ faults = 0
    /\ \E n \in 0 .. MainLen :
          /\ block_records =
                [b \in {<<"A", h>> : h \in 0 .. n - 1} |->
                    block_to_block_record(b, 1 + (b[2] % 2))]
          /\ heights_in_cache = [ht \in 0 .. n - 1 |-> {<<"A", ht>>}]

\* lines 104-273, with the list of results and the worker calls it made
pre_validate_blocks_multiprocessing_call(blocks, batch_size, fail_at, kind, verdict) ==
    /\ call.pc = "idle"
    /\ LET v == pre_validate_view(Cache, blocks, fail_at, kind)
           diff_ssis == [j \in 1 .. Len(blocks) |->
                            <<Difficulty(blocks[j]), SubSlotIters(blocks[j])>>]
           futures == dispatch(blocks, diff_ssis, batch_size)
       IN  /\ block_records' = v.cache.block_records
           /\ heights_in_cache' = v.cache.heights_in_cache
           /\ call' = [call EXCEPT
                  !.pc = "returned", !.blocks = blocks, !.batch_size = batch_size,
                  !.fail_at = fail_at, !.kind = kind, !.verdict = verdict,
                  !.known = DOMAIN block_records,
                  !.outcome = IF v.outcome = "AssertionError" THEN "RAISED" ELSE "RETURNED",
                  !.dispatched = IF v.outcome = "None" THEN futures ELSE <<>>,
                  !.results = IF v.outcome = "None" THEN Flatten(gather(futures, verdict))
                              ELSE IF v.outcome = "AssertionError" THEN <<>>
                              ELSE <<PreValidationResult(v.outcome, NoIters)>>]
    /\ UNCHANGED <<world, db, tx, block_cache, height_map, peak_height, pc, cur, pre, ret,
                   bad_batches, faults>>

\* what the header validation of a worker does with a block: it accepts it, it
\* returns an error, or it raises
NextPreValidate ==
    /\ call.pc = "idle"
    /\ \E blocks \in PreValidateLists, batch_size \in 1 .. MaxBatchSize :
      \E fail_at \in (IF batch_size = 1 THEN 0 .. Len(blocks) ELSE {0}) :
        \E kind \in (IF fail_at = 0 THEN {"INVALID_POSPACE"} ELSE TentativeFailures) :
          \E verdict \in [{blocks[i] : i \in 1 .. Len(blocks)} ->
                              IF fail_at = 0 THEN {"None", "INVALID_HEADER", "exception"}
                              ELSE {"None"}] :
            pre_validate_blocks_multiprocessing_call(blocks, batch_size, fail_at, kind, verdict)

SpecPreValidate == InitPreValidate /\ [][NextPreValidate]_vars

(***************************************************************************)
(* Repeated calls of pre_validate_blocks_multiprocessing.  What is wrong    *)
(* with a block is a property of the block, fixed for the behaviour; each   *)
(* call chooses its list, its batch_size and its wp_summaries.              *)
(***************************************************************************)
MaxCalls == 3           \* calls of pre-validation in one behaviour

\* block_rec.sub_epoch_summary_included: the blocks at height 2 include the
\* summary of their chain
SummaryIncluded(b) == IF Height(b) = 2 THEN b[1] ELSE "None"

\* lines 171-207: the tentative check that fails for block b, if any
tentative_failure(b, defect, wp_summaries) ==
    IF defect.block = b /\ defect.kind = "INVALID_POSPACE" THEN "INVALID_POSPACE"
    ELSE IF defect.block = b /\ defect.kind = "ValueError" THEN "INVALID_SUB_EPOCH_SUMMARY"
    ELSE IF /\ SummaryIncluded(b) # "None"
            /\ wp_summaries # <<>>
            /\ SummaryIncluded(b) # wp_summaries[Height(b) \div 2]
    THEN "INVALID_SUB_EPOCH_SUMMARY"
    ELSE "None"

first_failure(blocks, defect, wp_summaries) ==
    LET bad == {i \in 1 .. Len(blocks) :
                   tentative_failure(blocks[i], defect, wp_summaries) # "None"}
    IN  IF bad = {} THEN 0 ELSE CHOOSE i \in bad : \A j \in bad : i <= j

NoLast ==
    [seq |-> 0, blocks |-> <<>>, batch_size |-> 0, wp_summaries |-> <<>>,
     records |-> [x \in {} |-> NoRecord], outcome |-> "NONE", results |-> <<>>]

InitDeterminism ==
    /\ world = [alen |-> 3, forkh |-> 1, blen |-> 1, bdiff |-> 2,
                clen |-> 0, cdiff |-> 4, x |-> FALSE]
    /\ db = EmptyDb
    /\ tx = EmptyDb
    /\ block_cache = {}
    /\ height_map = EmptyMap
    /\ peak_height = NoHeight
    /\ pc = "idle"
    /\ cur = NoCur
    /\ pre = NoPre
    /\ ret = NoResult
    /\ bad_batches = 0
    /\ faults = 0
    /\ \E n \in 0 .. 3 :
          /\ block_records =
                [b \in {<<"A", h>> : h \in 0 .. n - 1} |->
                    block_to_block_record(b, 1 + (b[2] % 2))]
          /\ heights_in_cache = [ht \in 0 .. n - 1 |-> {<<"A", ht>>}]
    /\ \E defect \in {[block |-> NoHash, kind |-> "None"]} \cup
                     [block : {<<"A", 1>>},
                      kind : {"INVALID_POSPACE", "ValueError", "INVALID_HEADER", "exception"}] :
          call = [op |-> "pre_validate_blocks_multiprocessing", defect |-> defect,
                  last |-> NoLast, memo |-> NoLast]

\* lines 104-273: one more call; remember says whether it is the call that the
\* later ones are compared with
pre_validate_again(blocks, batch_size, wp_summaries, remember) ==
    /\ call.op = "pre_validate_blocks_multiprocessing"
    /\ call.last.seq < MaxCalls
    /\ remember => call.memo = NoLast
    /\ LET fail_at == first_failure(blocks, call.defect, wp_summaries)
           kind == IF fail_at = 0 THEN "INVALID_POSPACE"
                   ELSE tentative_failure(blocks[fail_at], call.defect, wp_summaries)
           verdict == [b \in {blocks[i] : i \in 1 .. Len(blocks)} |->
                          IF call.defect.block = b /\
                             call.defect.kind \in {"INVALID_HEADER", "exception"}
                          THEN call.defect.kind ELSE "None"]
           v == pre_validate_view(Cache, blocks, fail_at, kind)
           diff_ssis == [j \in 1 .. Len(blocks) |->
                            <<Difficulty(blocks[j]), SubSlotIters(blocks[j])>>]
           futures == dispatch(blocks, diff_ssis, batch_size)
           this == [seq |-> call.last.seq + 1, blocks |-> blocks, batch_size |-> batch_size,
                    wp_summaries |-> wp_summaries, records |-> block_records,
                    outcome |-> IF v.outcome = "AssertionError" THEN "RAISED" ELSE "RETURNED",
                    results |-> IF v.outcome = "None"
                                THEN Flatten(gather(futures, verdict))
                                ELSE IF v.outcome = "AssertionError" THEN <<>>
                                ELSE <<PreValidationResult(v.outcome, NoIters)>>]
       IN  /\ block_records' = v.cache.block_records
           /\ heights_in_cache' = v.cache.heights_in_cache
           /\ call' = [call EXCEPT !.last = this,
                                   !.memo = IF remember THEN this ELSE call.memo]
    /\ UNCHANGED <<world, db, tx, block_cache, height_map, peak_height, pc, cur, pre, ret,
                   bad_batches, faults>>

\* wp_summaries is None, or the summaries of a weight proof
NextDeterminism ==
    /\ call.last.seq < MaxCalls
    /\ \E blocks \in {l \in PreValidateLists : IsRun(l) /\ Len(l) <= 2} :
         \E batch_size \in 1 .. Min(Len(blocks), MaxBatchSize),
            wp_summaries \in {<<>>, <<"B">>}, remember \in BOOLEAN :
              pre_validate_again(blocks, batch_size, wp_summaries, remember)

SpecDeterminism == InitDeterminism /\ [][NextDeterminism]_vars

(***************************************************************************)
(* The seen-set of compact proofs (Blockchain._seen_compact_proofs).        *)
(***************************************************************************)
SeenLimit == 3          \* size above which the set is cleared; 10000 in the source

\* the (vdf_info, height) pairs offered: more of them than the set may hold
CompactProofs == {"vdf1", "vdf2"} \X (0 .. SeenLimit)

\* Blockchain.create, line 134: the set starts empty
InitSeen ==
    /\ InitWith(ForkWorld)
    /\ call = [op |-> "seen_compact_proofs", seen |-> {}, pot_tuple |-> <<"None", 0>>,
               result |-> FALSE]

\* seen_compact_proofs that clears the set after the insertion
seen_compact_proofs_clear_after_add(vdf_info, height) ==
    LET pot_tuple == <<vdf_info, height>> IN
    /\ call.op = "seen_compact_proofs"
    /\ IF pot_tuple \in call.seen
       THEN call' = [call EXCEPT !.pot_tuple = pot_tuple, !.result = TRUE]
       ELSE call' = [call EXCEPT
                        !.seen = IF Cardinality(call.seen \cup {pot_tuple}) > SeenLimit
                                 THEN {} ELSE call.seen \cup {pot_tuple},
                        !.pot_tuple = pot_tuple, !.result = FALSE]
    /\ UNCHANGED chainvars

seen_compact_proofs(vdf_info, height) ==
    LET pot_tuple == <<vdf_info, height>> IN
    /\ call.op = "seen_compact_proofs"
    /\ IF pot_tuple \in call.seen
       THEN call' = [call EXCEPT !.pot_tuple = pot_tuple, !.result = TRUE]
       ELSE call' = [call EXCEPT
                        !.seen = (IF Cardinality(call.seen) > SeenLimit
                                  THEN {} ELSE call.seen) \cup {pot_tuple},
                        !.pot_tuple = pot_tuple, !.result = FALSE]
    /\ UNCHANGED chainvars

NextSeen == \E p \in CompactProofs : seen_compact_proofs(p[1], p[2])

SpecSeen == InitSeen /\ [][NextSeen]_vars

(***************************************************************************)
(* The size of the pre-validation pool (Blockchain.create).                 *)
(***************************************************************************)
MaxCpuCount == 100      \* largest multiprocessing.cpu_count()

MaxReservedCores == 3   \* largest reserved_cores

MaxPoolWorkers == 61    \* the largest cpu_count the code counts with

InitWorkers ==
    /\ InitWith(ForkWorld)
    /\ \E cpu_count \in 1 .. MaxCpuCount, reserved_cores \in 0 .. MaxReservedCores :
         call = [op |-> "create", cpu_count |-> cpu_count,
                 reserved_cores |-> reserved_cores, pc |-> "called", num_workers |-> 0]

\* lines 117-120
num_workers(cpu_count, reserved_cores) ==
    Max((IF cpu_count > MaxPoolWorkers THEN MaxPoolWorkers ELSE cpu_count) - reserved_cores, 1)

\* lines 114-127, single_threaded = False
create ==
    /\ call.op = "create"
    /\ call.pc = "called"
    /\ call' = [call EXCEPT !.pc = "returned",
                            !.num_workers = num_workers(call.cpu_count, call.reserved_cores)]
    /\ UNCHANGED chainvars

SpecWorkers == InitWorkers /\ [][create]_vars

(***************************************************************************)
(* validate_unfinished_block: the parent check, header validation, then     *)
(* body validation of an unfinished block.                                  *)
(***************************************************************************)
\* validate_unfinished_header_block: (required_iters, error)
validate_unfinished_header_block(block, verdict) ==
    IF verdict = "None"
    THEN [required_iters |-> RequiredIters(block), error |-> "None"]
    ELSE [required_iters |-> NoIters, error |-> verdict]

InitUnfinished ==
    /\ call = [op |-> "validate_unfinished_block", pc |-> "idle", block |-> NoHash,
               header_verdict |-> "None", new_payload |-> "VALID",
               header_runs |-> 0, engine_calls |-> 0, required_iters |-> NoIters,
               height |-> NoHeight, block_record |-> "unset",
               result |-> PreValidationResult("PENDING", NoIters), before |-> NoPre]
    /\ world = ForkWorld
    /\ db = EmptyDb
    /\ tx = EmptyDb
    /\ block_cache = {}
    /\ height_map = EmptyMap
    /\ peak_height = NoHeight
    /\ pc = "idle"
    /\ cur = NoCur
    /\ pre = NoPre
    /\ ret = NoResult
    /\ bad_batches = 0
    /\ faults = 0
    /\ \E n \in 0 .. MainLen :
          /\ block_records =
                [b \in {<<"A", h>> : h \in 0 .. n - 1} |->
                    block_to_block_record(b, 1 + (b[2] % 2))]
          /\ heights_in_cache = [ht \in 0 .. n - 1 |-> {<<"A", ht>>}]

\* lines 448-452: the parent check of validate_unfinished_block_header, and
\* lines 482-485 when it fails
validate_unfinished_block_header(block, header_verdict, new_payload) ==
    /\ call' = [call EXCEPT
                  !.block = block,
                  !.header_verdict = header_verdict,
                  !.new_payload = new_payload,
                  !.before = ChainState,
                  !.pc = IF ~contains_block(Prev(block)) /\ Prev(block) # GENESIS_CHALLENGE
                         THEN "returned" ELSE "header",
                  !.result = IF ~contains_block(Prev(block)) /\ Prev(block) # GENESIS_CHALLENGE
                             THEN PreValidationResult("INVALID_PREV_BLOCK_HASH", NoIters)
                             ELSE @]
    /\ UNCHANGED chainvars

\* lines 454-477 and 482-485: header validation and the return of its error
validate_unfinished_block_header_validation ==
    /\ call.op = "validate_unfinished_block"
    /\ call.pc = "header"
    /\ LET r == validate_unfinished_header_block(call.block, call.header_verdict) IN
       call' = [call EXCEPT
                  !.header_runs = @ + 1,
                  !.required_iters = r.required_iters,
                  !.pc = IF r.error # "None" THEN "returned" ELSE "body",
                  !.result = IF r.error # "None"
                             THEN PreValidationResult(r.error, NoIters)
                             ELSE @]
    /\ UNCHANGED chainvars

\* lines 487-503 handing required_iters back whatever body validation said
validate_unfinished_block_body_keeps_iters ==
    /\ call.op = "validate_unfinished_block"
    /\ call.pc = "body"
    /\ LET prev_height == IF Prev(call.block) = GENESIS_CHALLENGE
                          THEN 0 - 1
                          ELSE block_record(Prev(call.block)).height
           error_code == validate_block_body(FALSE, HasPayload(call.block),
                                             engine_status(call.new_payload),
                                             "VALID", TRUE)
       IN call' = [call EXCEPT
                     !.height = prev_height + 1,
                     !.block_record = "None",
                     !.engine_calls = @ + (IF HasPayload(call.block) THEN 1 ELSE 0),
                     !.pc = "returned",
                     !.result = PreValidationResult(error_code, call.required_iters)]
    /\ UNCHANGED chainvars

\* lines 487-503: body validation and the result
validate_unfinished_block_body ==
    /\ call.op = "validate_unfinished_block"
    /\ call.pc = "body"
    /\ LET prev_height == IF Prev(call.block) = GENESIS_CHALLENGE
                          THEN 0 - 1
                          ELSE block_record(Prev(call.block)).height
           error_code == validate_block_body(FALSE, HasPayload(call.block),
                                             engine_status(call.new_payload),
                                             "VALID", TRUE)
       IN call' = [call EXCEPT
                     !.height = prev_height + 1,
                     !.block_record = "None",
                     !.engine_calls = @ + (IF HasPayload(call.block) THEN 1 ELSE 0),
                     !.pc = "returned",
                     !.result = IF error_code # "None"
                                THEN PreValidationResult(error_code, NoIters)
                                ELSE PreValidationResult("None", call.required_iters)]
    /\ UNCHANGED chainvars

NextUnfinished ==
    \/ /\ call.op = "validate_unfinished_block"
       /\ call.pc = "idle"
       /\ \E block \in Blocks, header_verdict \in {"None", "INVALID_HEADER"},
             new_payload \in EngineReplies :
               validate_unfinished_block_header(block, header_verdict, new_payload)
    \/ validate_unfinished_block_header_validation
    \/ validate_unfinished_block_body

SpecUnfinished == InitUnfinished /\ [][NextUnfinished]_vars

(***************************************************************************)
(* get_recent_reward_challenges, on any chain of cached records below the   *)
(* peak.  chain[i] is the record at height i - 1; the last one is the peak. *)
(***************************************************************************)
MAX_SUB_SLOT_BLOCKS == 1   \* constants.MAX_SUB_SLOT_BLOCKS, scaled down

\* no peak, or a chain of records; a record at a sub-slot start carries one or two
\* finished reward-slot hashes and its ip_sub_slot_total_iters, with sub_slot_iters 1
InitRecent ==
    /\ InitWith(ForkWorld)
    /\ \E n \in 0 .. MaxChain :
         \E chain \in [1 .. n ->
                 [first_in_sub_slot : {FALSE}, finished_reward_slot_hashes : {0},
                  ip_sub_slot_total_iters : {0}, sub_slot_iters : {1}]
                 \cup
                 [first_in_sub_slot : {TRUE}, finished_reward_slot_hashes : 1 .. 2,
                  ip_sub_slot_total_iters : 0 .. 2, sub_slot_iters : {1}]] :
            call = [op |-> "get_recent_reward_challenges", chain |-> chain,
                    pc |-> "called", result |-> <<>>]

RECURSIVE recent_walk(_, _, _)
\* lines 430-442: the loop, curr being chain[i], or None when i = 0; a pair is
\* <<height of the block it comes from, total_iters>>
recent_walk(chain, i, recent_rc) ==
    IF i = 0 \/ Len(recent_rc) >= 2 * MAX_SUB_SLOT_BLOCKS THEN recent_rc
    ELSE LET curr == chain[i]
             own == IF i # Len(chain) THEN Append(recent_rc, <<i - 1, "total_iters">>)
                    ELSE recent_rc
             appended == IF curr.first_in_sub_slot
                         THEN Min(curr.finished_reward_slot_hashes,
                                  curr.ip_sub_slot_total_iters \div curr.sub_slot_iters)
                         ELSE 0
             slots == [j \in 1 .. appended |->
                          <<i - 1, curr.ip_sub_slot_total_iters - (j - 1) * curr.sub_slot_iters>>]
         IN  recent_walk(chain, i - 1, own \o slots)

\* lines 424-443
get_recent_reward_challenges ==
    /\ call.op = "get_recent_reward_challenges"
    /\ call.pc = "called"
    /\ call' = [call EXCEPT
                  !.pc = "returned",
                  !.result = IF call.chain = <<>> THEN <<>>
                             ELSE Reverse(recent_walk(call.chain, Len(call.chain), <<>>))]
    /\ UNCHANGED chainvars

SpecRecent == InitRecent /\ [][get_recent_reward_challenges]_vars

(***************************************************************************)
(* Properties.                                                              *)
(***************************************************************************)
\* the chain state a call started from: the snapshot of an in-flight receive_block,
\* the current state for a call that returns before its first await
Before == IF pc = "idle" THEN ChainState ELSE pre

\* C1: when receive_block returns ALREADY_HAVE_BLOCK, DISCONNECTED_BLOCK or
\* INVALID_BLOCK, the Block Store contents, the block-record cache, the height
\* map and peak_height are what they were before the call.
C1_FailedReceiveChangesNothing ==
    [][(/\ pc' = "idle"
        /\ ret'.op = "receive_block"
        /\ ret'.outcome \in {"ALREADY_HAVE_BLOCK", "DISCONNECTED_BLOCK", "INVALID_BLOCK"})
        => /\ db' = Before.db
           /\ block_records' = Before.block_records
           /\ heights_in_cache' = Before.heights_in_cache
           /\ height_map' = Before.height_map
           /\ peak_height' = Before.peak_height]_vars

\* an engine verdict rejected a block offered to a chain that has a peak
C1_Witness ==
    /\ pc = "idle" /\ ret.op = "receive_block"
    /\ ret.outcome = "INVALID_BLOCK" /\ ret.err = "PAYLOAD_INVALIDATED"
    /\ peak_height # NoHeight

\* C2: at every await of an in-flight receive_block, get_peak() does not raise and
\* the block it returns is in the committed Block Store.
C2_ReaderSeesCommittedPeak ==
    (pc # "idle" /\ peak_height # NoHeight)
        => /\ ~get_peak_raises
           /\ get_peak.header_hash \in DOMAIN db.rows

\* C3: when a step inside the writer transaction raises (add_full_block,
\* _reconsider_peak, the cache insert, the height-map rollback or update), the
\* transaction is rolled back and the cache, the height map and peak_height are
\* what they were before the call.
C3_ExceptionRestoresCache ==
    [][(pc' = "idle" /\ ret'.op = "receive_block" /\ ret'.outcome = "RAISED"
        /\ ret'.err \in {"add_full_block", "reconsider_peak", "update_cache"})
        => /\ db' = pre.db
           /\ block_records' = pre.block_records
           /\ height_map' = pre.height_map
           /\ peak_height' = pre.peak_height]_vars

\* C4: when receive_block is cancelled at an await with the writer transaction
\* open (add_full_block, _reconsider_peak, the commit), the transaction is rolled
\* back and the cache and the height map are what they were before the call.
C4_CancelRestoresCache ==
    [][(pc' = "idle" /\ ret'.op = "receive_block" /\ ret'.outcome = "RAISED"
        /\ ret'.err \in {"add_full_block", "reconsider_peak", "commit"})
        => /\ db' = pre.db
           /\ block_records' = pre.block_records
           /\ height_map' = pre.height_map]_vars

\* C5: pre_validate_blocks_multiprocessing returns with the block_records view
\* exactly as it was before the call, whatever it returns.
C5_PreValidateLeavesView ==
    [][(pc = "idle" /\ ret'.op = "pre_validate" /\ ret'.outcome = "RETURNED")
        => block_records' = block_records]_vars

\* C6: between calls, every header hash of the block-record cache has a record
\* in the Block Store and the two records are equal.
C6_CacheSubsetOfStore ==
    pc = "idle" =>
        \A h \in DOMAIN block_records :
            h \in DOMAIN db.rows /\ db.rows[h] = block_records[h]

\* the blocks marked in-chain or indexed by the height map
Canonical == db.in_chain \cup {height_map[h] : h \in DOMAIN height_map}

\* C7: between receive_block calls the peak's weight is the maximum weight over
\* the canonical blocks.
C7_PeakIsHeaviestCanonical ==
    (pc = "idle" /\ peak_height # NoHeight) =>
        /\ ~get_peak_raises
        /\ Canonical \subseteq DOMAIN db.rows
        /\ get_peak.header_hash \in Canonical
        /\ \A h \in Canonical : db.rows[h].weight <= get_peak.weight

\* a reorg has happened: a block that was canonical is lighter than the peak and
\* is not its ancestor
C7_Witness ==
    /\ pc = "idle" /\ peak_height # NoHeight
    /\ \E h \in db.in_chain :
         /\ db.rows[h].height <= peak_height
         /\ height_map[db.rows[h].height] # h

\* C8: after a completed receive_block the height map has an entry for exactly
\* the heights 0 .. peak_height, and the entry at each height is the stored
\* record of that height on the path from the peak back to height 0.
C8_HeightMapIsPeakPath ==
    (pc = "idle" /\ ret.op = "receive_block" /\ ret.outcome # "RAISED") =>
        /\ DOMAIN height_map = 0 .. peak_height
        /\ \A h \in DOMAIN height_map :
             /\ height_map[h] \in DOMAIN db.rows
             /\ db.rows[height_map[h]].height = h
             /\ db.rows[height_map[h]].prev_hash =
                    (IF h = 0 THEN GENESIS_CHALLENGE ELSE height_map[h - 1])

\* a reorg onto a heavier chain that is shorter than the chain it replaced
C8_Witness ==
    /\ pc = "idle" /\ ret.op = "receive_block" /\ ret.outcome = "NEW_PEAK"
    /\ \E h \in db.in_chain : db.rows[h].height > peak_height

PrePeak == pre.block_records[pre.height_map[pre.peak_height]]

\* C9: with chain A (heights 0 .. 10) as peak, a block of chain B (which leaves A
\* at height 5) is ADDED_AS_ORPHAN while its weight does not exceed the peak's;
\* the first B block that is heavier is the NEW_PEAK with fork_height 5, and the
\* height-map entries above 5 are then exactly B's blocks up to that block.
C9_Reorg ==
    [][(pc = "maybe_flush" /\ pc' = "idle" /\ cur.block[1] = "B"
        /\ pre.peak_height = world.alen - 1
        /\ pre.height_map[pre.peak_height] = <<"A", world.alen - 1>>)
        => IF cur.record.weight <= PrePeak.weight
           THEN /\ ret'.outcome = "ADDED_AS_ORPHAN"
                /\ height_map' = pre.height_map
           ELSE /\ ret'.outcome = "NEW_PEAK"
                /\ ret'.summary.fork_height = world.forkh
                /\ ret'.summary.peak = cur.block
                /\ DOMAIN height_map' = 0 .. Height(cur.block)
                /\ \A h \in 0 .. Height(cur.block) :
                     height_map'[h] = IF h <= world.forkh THEN <<"A", h>> ELSE <<"B", h>>]_vars

\* chain A was the peak up to its last block and a B block took the peak over
C9_Witness ==
    /\ pc = "idle" /\ ret.outcome = "NEW_PEAK"
    /\ <<"A", world.alen - 1>> \in db.in_chain
    /\ ret.summary.peak[1] = "B"
    /\ ret.summary.fork_height = world.forkh
    /\ Cardinality({b \in DOMAIN db.rows : b[1] = "B"}) > 1

\* C10: a connected non-genesis block that passed validation and is not heavier
\* than the peak is stored as ADDED_AS_ORPHAN without a summary; the peak,
\* peak_height, the height map and the in-chain set stay as they were, and only
\* the block's row and cache entry are added.
C10_OrphanFrame ==
    [][(pc # "idle" /\ pc' = "idle" /\ ret'.outcome # "INVALID_BLOCK"
        /\ ~cur.genesis /\ pre.peak_height # NoHeight
        /\ cur.record.weight <= PrePeak.weight)
        => /\ ret'.outcome = "ADDED_AS_ORPHAN"
           /\ ret'.summary = NoSummary
           /\ peak_height' = pre.peak_height
           /\ height_map' = pre.height_map
           /\ db'.peak = pre.db.peak
           /\ db'.in_chain = pre.db.in_chain
           /\ db'.rows = Put(pre.db.rows, cur.block, cur.record)
           /\ block_records' = Put(pre.block_records, cur.block, cur.record)]_vars

\* a block as heavy as the peak, with another parent than the peak's, was stored as an orphan
C10_Witness ==
    /\ pc = "idle" /\ ret.outcome = "ADDED_AS_ORPHAN"
    /\ \E b \in DOMAIN db.rows :
         /\ b \notin db.in_chain
         /\ db.rows[b].height > 0
         /\ db.rows[b].weight = get_peak.weight

\* C11: a block that extends the peak and passes validation is the NEW_PEAK; offered
\* again right after, it returns ALREADY_HAVE_BLOCK with no error and no summary
\* before any await (no engine call), and store, cache, height map and peak_height
\* stay as they are.
C11_SecondReceiveChangesNothing ==
    [][/\ (pc # "idle" /\ pc' = "idle" /\ pre.peak_height # NoHeight
           /\ cur.record.prev_hash = PrePeak.header_hash
           /\ ret'.outcome # "INVALID_BLOCK")
          => (ret'.outcome = "NEW_PEAK" /\ ret'.summary.peak = cur.block)
       /\ \A e \in PreValidationErrors :
            \A hint \in ForkHints(ret.summary.peak) :
              (pc = "idle" /\ ret.op = "receive_block" /\ ret.outcome = "NEW_PEAK"
               /\ receive_block(ret.summary.peak, e, hint))
              => /\ pc' = "idle"
                 /\ ret' = Result("receive_block", "ALREADY_HAVE_BLOCK", "None", NoSummary)
                 /\ db' = db /\ tx' = tx
                 /\ block_records' = block_records
                 /\ heights_in_cache' = heights_in_cache
                 /\ height_map' = height_map
                 /\ peak_height' = peak_height]_vars

\* a block was answered with ALREADY_HAVE_BLOCK while the peak, a non-genesis block
\* that extended the previous peak, is stored and cached
C11_Witness ==
    /\ pc = "idle" /\ ret.op = "receive_block" /\ ret.outcome = "ALREADY_HAVE_BLOCK"
    /\ peak_height > 0
    /\ ~get_peak_raises
    /\ get_peak.header_hash = db.peak
    /\ get_peak.prev_hash = height_map[peak_height - 1]

\* C12: receive_block decides by the first failing check, in this order: block in the
\* cache (ALREADY_HAVE_BLOCK, no error); parent of a non-genesis block not in the
\* cache (DISCONNECTED_BLOCK, INVALID_PREV_BLOCK_HASH); height other than the
\* parent's + 1 (INVALID_BLOCK, INVALID_HEIGHT); pre-validation error (INVALID_BLOCK,
\* that error); body-validation error (INVALID_BLOCK, that error).  The error is
\* None exactly for NEW_PEAK, ADDED_AS_ORPHAN and ALREADY_HAVE_BLOCK, and there is
\* a summary exactly for NEW_PEAK.
C12_ChecksInOrder ==
    [][/\ (pc = "idle" /\ ret'.op = "receive_block") =>
            \A b \in Blocks, e \in PreValidationErrors :
            \A hint \in {NoHeight, cur'.fork_point_with_peak} :
              receive_block(b, e, hint) =>
                LET genesis == Height(b) = 0
                    expected ==
                      IF b \in DOMAIN block_records
                      THEN <<"ALREADY_HAVE_BLOCK", "None">>
                      ELSE IF ~genesis /\ Prev(b) \notin DOMAIN block_records
                      THEN <<"DISCONNECTED_BLOCK", "INVALID_PREV_BLOCK_HASH">>
                      ELSE IF ~genesis /\ Height(b) # block_records[Prev(b)].height + 1
                      THEN <<"INVALID_BLOCK", "INVALID_HEIGHT">>
                      ELSE IF e # "None" THEN <<"INVALID_BLOCK", e>>
                      ELSE <<"PENDING", "None">>
                IN  /\ ret'.outcome = expected[1]
                    /\ ret'.err = expected[2]
                    /\ (expected[1] = "PENDING") = (pc' = "validate_block_body")
       /\ (pc = "validate_block_body" /\ pc' = "idle")
            => /\ ret'.outcome = "INVALID_BLOCK"
               /\ ret'.err \in {"PAYLOAD_INVALIDATED", "PAYLOAD_NOT_VALIDATED", "UNKNOWN"}
       /\ (pc' = "idle" /\ ret'.op = "receive_block")
            => /\ (ret'.err = "None") =
                    (ret'.outcome \in {"NEW_PEAK", "ADDED_AS_ORPHAN", "ALREADY_HAVE_BLOCK"})
               /\ (ret'.summary # NoSummary) = (ret'.outcome = "NEW_PEAK")]_vars

\* a block whose parent is cached was rejected for its height
C12_Witness ==
    /\ pc = "idle" /\ ret.op = "receive_block"
    /\ ret.outcome = "INVALID_BLOCK" /\ ret.err = "INVALID_HEIGHT"
    /\ <<"X", 2>> \notin DOMAIN block_records
    /\ Prev(<<"X", 2>>) \in DOMAIN block_records

\* C13: on an empty store without a peak, a height-0 block that is not rejected is
\* the NEW_PEAK with fork_height 0; it is the only stored row, is marked in-chain,
\* is the stored peak, peak_height is 0 and the height map is exactly 0 -> block.
C13_GenesisInsertion ==
    [][(pc # "idle" /\ pc' = "idle" /\ cur.genesis
        /\ pre.db = EmptyDb /\ pre.peak_height = NoHeight
        /\ ret'.outcome # "INVALID_BLOCK")
        => /\ ret'.outcome = "NEW_PEAK"
           /\ ret'.err = "None"
           /\ ret'.summary = [peak |-> cur.block, fork_height |-> 0]
           /\ db'.rows = Put(EmptyMap, cur.block, cur.record)
           /\ db'.in_chain = {cur.block}
           /\ db'.peak = cur.block
           /\ peak_height' = 0
           /\ DOMAIN height_map' = {0}
           /\ height_map'[0] = cur.block
           /\ cur.block \in DOMAIN block_records']_vars

\* the first block of a chain has just been stored as its peak
C13_Witness ==
    /\ pc = "idle" /\ ret.op = "receive_block" /\ ret.outcome = "NEW_PEAK"
    /\ ret.summary.fork_height = 0
    /\ peak_height = 0
    /\ Cardinality(DOMAIN db.rows) = 1
    /\ db.peak = ret.summary.peak
    /\ db.rows[db.peak].prev_hash = GENESIS_CHALLENGE

RECURSIVE MainRecords(_)
\* the records of chain A up to height k, oldest first
MainRecords(k) ==
    IF k < 0 THEN <<>>
    ELSE Append(MainRecords(k - 1), block_to_block_record(<<"A", k>>, RequiredIters(<<"A", k>>)))

\* peak and height map of the run that received only the blocks of chain A up to
\* height k: each call appends its block's height
NeverForked(k) ==
    [peak |-> MainRecords(k)[k + 1],
     height_map |-> update_heights(EmptyMap, MainRecords(k), k + 1)]

\* C14: whenever a block of chain A is the peak between calls, whatever forks were
\* the peak before, the peak and the height map are those of the run that
\* received only chain A's blocks up to that block.
C14_ReorgRoundTrip ==
    (pc = "idle" /\ peak_height # NoHeight /\ contains_height(height_map, peak_height)
     /\ height_map[peak_height][1] = "A")
        => /\ ~get_peak_raises
           /\ get_peak = NeverForked(peak_height).peak
           /\ db.peak = NeverForked(peak_height).peak.header_hash
           /\ height_map = NeverForked(peak_height).height_map

\* chain A is the peak again after a block of chain B had been the peak
C14_Witness ==
    /\ pc = "idle" /\ ret.op = "receive_block" /\ ret.outcome = "NEW_PEAK"
    /\ ret.summary.peak[1] = "A"
    /\ ret.summary.fork_height = world.forkh
    /\ \E b \in db.in_chain : b[1] = "B"
    /\ height_map[peak_height] = ret.summary.peak

\* C15: for an unfinished block with an execution payload the new_payload status
\* alone decides: VALID accepts; INVALID and INVALID_BLOCK_HASH give
\* PAYLOAD_INVALIDATED; SYNCING and ACCEPTED give PAYLOAD_NOT_VALIDATED; any other
\* status gives UNKNOWN.
C15_UnfinishedBlockPolicy ==
    (call.op = "validate_block_body" /\ call.pc = "returned"
     /\ ~call.is_full /\ call.has_payload)
        => call.result =
             (CASE call.new_payload = "VALID" -> "None"
                [] call.new_payload \in {"INVALID", "INVALID_BLOCK_HASH"} -> "PAYLOAD_INVALIDATED"
                [] call.new_payload \in {"SYNCING", "ACCEPTED"} -> "PAYLOAD_NOT_VALIDATED"
                [] OTHER -> "UNKNOWN")

\* an unfinished block was rejected because the engine is syncing, although the
\* forkchoice answer on offer was VALID
C15_Witness ==
    /\ call.op = "validate_block_body" /\ call.pc = "returned"
    /\ ~call.is_full /\ call.has_payload
    /\ call.new_payload = "SYNCING" /\ call.forkchoice_update = "VALID"
    /\ call.result = "PAYLOAD_NOT_VALIDATED"

\* C16: for a full block with an execution payload: new_payload INVALID or
\* INVALID_BLOCK_HASH gives PAYLOAD_INVALIDATED and an unrecognised new_payload
\* status gives UNKNOWN; VALID from both calls accepts; once new_payload has not
\* rejected, forkchoice_update INVALID gives PAYLOAD_INVALIDATED, SYNCING or
\* ACCEPTED accepts when optimistic_import is enabled or absent and gives
\* PAYLOAD_NOT_VALIDATED when it is disabled, and an unrecognised status gives UNKNOWN.
C16_FullBlockPolicy ==
    (call.op = "validate_block_body" /\ call.pc = "returned"
     /\ call.is_full /\ call.has_payload)
        => LET np == call.new_payload
               fcu == call.forkchoice_update
               known == {"VALID", "INVALID", "INVALID_BLOCK_HASH", "SYNCING", "ACCEPTED"}
               enabled == call.config \in {"True", "absent"}
           IN  /\ np \in {"INVALID", "INVALID_BLOCK_HASH"} => call.result = "PAYLOAD_INVALIDATED"
               /\ np \notin known => call.result = "UNKNOWN"
               /\ (np = "VALID" /\ fcu = "VALID") => call.result = "None"
               /\ np \in {"VALID", "SYNCING", "ACCEPTED"} =>
                    /\ fcu = "INVALID" => call.result = "PAYLOAD_INVALIDATED"
                    /\ fcu \in {"SYNCING", "ACCEPTED"} =>
                         call.result = (IF enabled THEN "None" ELSE "PAYLOAD_NOT_VALIDATED")
                    /\ fcu \notin known => call.result = "UNKNOWN"

\* a full block was imported optimistically with the option absent from the configuration
C16_Witness ==
    /\ call.op = "validate_block_body" /\ call.pc = "returned"
    /\ call.is_full /\ call.has_payload
    /\ call.new_payload = "VALID" /\ call.forkchoice_update = "SYNCING"
    /\ call.config = "absent"
    /\ call.result = "None"

\* C17 as stated: with optimistic_import disabled a full block with a payload is
\* accepted only if both calls answered VALID, and when neither call rejects and
\* either answers SYNCING or ACCEPTED the block is rejected with
\* PAYLOAD_NOT_VALIDATED while the enabled option accepts it.
C17_AcceptedOnlyIfBothValid ==
    (call.op = "validate_block_body" /\ call.pc = "returned"
     /\ call.is_full /\ call.has_payload /\ call.config = "False")
        => LET np == call.new_payload
               fcu == call.forkchoice_update
           IN  /\ call.result = "None" => (np = "VALID" /\ fcu = "VALID")
               /\ ({np, fcu} \subseteq {"VALID", "SYNCING", "ACCEPTED"} /\ {np, fcu} # {"VALID"})
                    => /\ call.result = "PAYLOAD_NOT_VALIDATED"
                       /\ validate_block_body(TRUE, TRUE, np, fcu, TRUE) = "None"

\* C17: with optimistic_import disabled a full block with a payload is accepted
\* only if forkchoice_update answered VALID and new_payload answered VALID, SYNCING
\* or ACCEPTED; when new_payload has not rejected and forkchoice_update answers
\* SYNCING or ACCEPTED the block is rejected with PAYLOAD_NOT_VALIDATED, and the
\* enabled option accepts the same answers.
C17_AcceptedOnlyIfForkchoiceValid ==
    (call.op = "validate_block_body" /\ call.pc = "returned"
     /\ call.is_full /\ call.has_payload /\ call.config = "False")
        => LET np == call.new_payload
               fcu == call.forkchoice_update
           IN  /\ call.result = "None"
                    => (np \in {"VALID", "SYNCING", "ACCEPTED"} /\ fcu = "VALID")
               /\ (np \in {"VALID", "SYNCING", "ACCEPTED"} /\ fcu \in {"SYNCING", "ACCEPTED"})
                    => /\ call.result = "PAYLOAD_NOT_VALIDATED"
                       /\ validate_block_body(TRUE, TRUE, np, fcu, TRUE) = "None"

\* with the option disabled a full block was rejected because forkchoice_update
\* answered SYNCING
C17_Witness ==
    /\ call.op = "validate_block_body" /\ call.pc = "returned"
    /\ call.is_full /\ call.has_payload /\ call.config = "False"
    /\ call.new_payload = "ACCEPTED" /\ call.forkchoice_update = "SYNCING"
    /\ call.result = "PAYLOAD_NOT_VALIDATED"

C20_RewardSchedule ==
    (call.op = "_calculate_block_reward" /\ call.pc = "returned")
        => LET Y == 4608 * 2 * 365
               h == call.height
           IN  /\ call.result =
                    (CASE h < 3 * Y -> 2000000000
                       [] h >= 3 * Y /\ h < 6 * Y -> 1000000000
                       [] h >= 6 * Y /\ h < 9 * Y -> 500000000
                       [] h >= 9 * Y /\ h < 12 * Y -> 250000000
                       [] h >= 12 * Y /\ h < 15 * Y -> 125000000
                       [] OTHER -> 0)
               /\ h = 10091519 => call.result = 2000000000
               /\ h = 10091520 => call.result = 1000000000
               /\ \A later \in RewardHeights :
                    later >= h => _calculate_block_reward(later) <= call.result

\* the reward of the first block of the fourth year
C20_Witness ==
    /\ call.op = "_calculate_block_reward" /\ call.pc = "returned"
    /\ call.height = 3 * _blocks_per_year
    /\ call.result = 1000000000

\* C19: the withdrawals returned by create_withdrawals carry consecutive indices
\* from last_withdrawal_index + 1 (0 when absent); the prefarm withdrawal comes
\* first exactly when prev_tx_block is at height 0; then comes one reward
\* withdrawal for prev_tx_block and each ancestor down to the block after the
\* newest earlier transaction block, or down to the genesis block; a height-0
\* prev_tx_block without an index yields the prefarm at 0 and its reward at 1.
C19_WithdrawalList ==
    (call.op = "create_withdrawals" /\ call.pc = "returned")
        => LET ws == call.result
               prev == call.prev_tx_block
               top == prev.height
               start == IF prev.last_withdrawal_index = NoIndex THEN 0
                        ELSE prev.last_withdrawal_index + 1
               prefarm == [index |-> start, validator_index |-> 0,
                           address |-> PREFARM_ADDRESS,
                           amount |-> PREFARM_AMOUNT * 1000000000]
               off == IF top = 0 THEN 1 ELSE 0
               tx_below == {r.height : r \in {x \in {call.blocks[h] : h \in DOMAIN call.blocks} :
                                                 x.height < top /\ x.is_transaction_block}}
               stop == IF tx_below = {} THEN 0
                       ELSE 1 + CHOOSE m \in tx_below : \A o \in tx_below : o <= m
           IN  /\ \A i \in 1 .. Len(ws) : ws[i].index = start + i - 1
               /\ (top = 0) <=> (Len(ws) >= 1 /\ ws[1] = prefarm)
               /\ \A i \in 2 .. Len(ws) : ws[i].validator_index # 0
               /\ Len(ws) = off + (top - stop) + 1
               /\ \A j \in 1 .. (top - stop) + 1 :
                    ws[off + j] = [index |-> start + off + j - 1, validator_index |-> 1,
                                   address |-> call.blocks[<<"W", top - j + 1>>].coinbase,
                                   amount |-> _calculate_block_reward(top - j + 1)]
               /\ (top = 0 /\ prev.last_withdrawal_index = NoIndex)
                    => ws = <<[index |-> 0, validator_index |-> 0,
                               address |-> PREFARM_ADDRESS,
                               amount |-> PREFARM_AMOUNT * 1000000000],
                              [index |-> 1, validator_index |-> 1,
                               address |-> prev.coinbase, amount |-> 2000000000]>>

\* a walk over the two records on either side of the first reward step, stopped by
\* the transaction block below them, with indices that continue after index 1
C19_Witness ==
    /\ call.op = "create_withdrawals" /\ call.pc = "returned"
    /\ call.prev_tx_block.height = 3 * _blocks_per_year
    /\ call.prev_tx_block.last_withdrawal_index = 1
    /\ Len(call.result) = 2
    /\ call.result[1].amount = 1000000000
    /\ call.result[2].amount = 2000000000
    /\ call.result[2].index = 3

\* the heights that have a record in the cache c
\* C21: clean_block_records keeps every cached record with height >= peak -
\* BLOCKS_CACHE_SIZE and removes every cached record below; run on a cache that
\* holds the consecutive heights 0 .. peak, with peak >= BLOCKS_CACHE_SIZE, it
\* leaves exactly the heights peak - BLOCKS_CACHE_SIZE .. peak.
C21_CleanKeepsTopHeights ==
    [][(/\ clean_block_records
        /\ peak_height # NoHeight
        /\ peak_height >= BLOCKS_CACHE_SIZE
        /\ Cardinality(DOMAIN block_records) >= BLOCKS_CACHE_SIZE)
          => /\ DOMAIN block_records' =
                  {h \in DOMAIN block_records :
                      block_records[h].height >= peak_height - BLOCKS_CACHE_SIZE}
             /\ {block_records[h].height : h \in DOMAIN block_records} = 0 .. peak_height
                  => {block_records'[h].height : h \in DOMAIN block_records'} =
                        (peak_height - BLOCKS_CACHE_SIZE) .. peak_height]_vars

\* C22: clean_block_record(height), on any contents of the cache, removes every
\* cached record below height and no record at height or above; for a negative
\* height it removes nothing.
C22_CleanRemovesExactlyBelow ==
    [][\A height \in ((0 - 1) .. (MainLen + ForkLen)) :
          call_clean_block_record(height)
             => IF height < 0
                THEN block_records' = block_records
                ELSE /\ DOMAIN block_records' =
                           {b \in DOMAIN block_records : block_records[b].height >= height}
                     /\ \A b \in DOMAIN block_records' :
                           block_records'[b] = block_records[b]]_vars

\* C23: a receive_block call made by a task that does not hold `lock` fails an
\* assertion and changes no chain state, so no two executions of receive_block
\* are ever in flight at the same time.
C23_ReceiveBlockAssertsLock ==
    [][/\ \A block \in Blocks, e \in PreValidationErrors :
            \A hint \in {NoHeight, cur'.fork_point_with_peak} :
               (receive_block(block, e, hint) /\ call.lock # "task1")
                  => /\ ret'.outcome = "RAISED"
                     /\ ret'.err = "AssertionError"
                     /\ pc' = "idle"
       /\ \A block \in Blocks, e \in PreValidationErrors :
               (receive_block_task2(block, e) /\ call.lock # "task2")
                  => /\ call'.ret2 = "AssertionError"
                     /\ call'.pc2 = "idle"
       /\ ~(pc' # "idle" /\ call'.pc2 # "idle")]_vars

\* C24: pre_validate_blocks_multiprocessing never raises for an invalid block:
\* a missing parent of a later block of the list, a bad proof of space, a bad
\* sub-epoch summary and an exception in a worker all come back as error codes
\* in a returned PreValidationResult.
C24_PreValidateNeverRaises ==
    (call.op = "pre_validate_blocks_multiprocessing" /\ call.pc = "returned")
        => /\ call.outcome = "RETURNED"
           /\ Len(call.results) >= 1
           /\ (\E i \in 2 .. Len(call.blocks) :
                  /\ Prev(call.blocks[i]) # call.blocks[i - 1]
                  /\ Prev(call.blocks[i]) \notin DOMAIN block_records)
                => \E i \in 1 .. Len(call.results) : call.results[i].error # "None"

\* the blocks of a list up to position n are connected to the known blocks: the
\* first extends a known block or is at height 0, every later one extends a known
\* block or an earlier block of the list
Connected(blocks, n, known) ==
    /\ Height(blocks[1]) = 0 \/ Prev(blocks[1]) \in known
    /\ \A i \in 2 .. n :
          \/ Height(blocks[i]) = 0
          \/ Prev(blocks[i]) \in known
          \/ \E j \in 1 .. i - 1 : blocks[j] = Prev(blocks[i])

\* C25: when no tentative check fails the call returns one result per block, in
\* the order of the list, for every batch_size: the worker calls take the blocks
\* in consecutive batches of at most batch_size, each block once and with its own
\* expected difficulty and sub-slot iterations, and the results of the batches
\* are returned in batch order.  When the tentative proof of space check fails
\* the call returns the single result INVALID_POSPACE and no worker is called.
C25_OneResultPerBlockInOrder ==
    (/\ call.op = "pre_validate_blocks_multiprocessing" /\ call.pc = "returned"
     /\ call.kind = "INVALID_POSPACE"
     /\ Connected(call.blocks,
                  IF call.fail_at = 0 THEN Len(call.blocks) ELSE call.fail_at, call.known))
       => LET blocks == call.blocks
              batch_size == call.batch_size
              verdict == call.verdict
              d == call.dispatched
              r == call.results
              n == Len(blocks)
              first(k) == (k - 1) * batch_size
          IN  IF call.fail_at > 0
              THEN /\ call.outcome = "RETURNED"
                   /\ r = <<[error |-> "INVALID_POSPACE", required_iters |-> NoIters]>>
                   /\ d = <<>>
              ELSE /\ call.outcome = "RETURNED"
                   /\ Len(r) = n
                   /\ \A i \in 1 .. n :
                         r[i] = IF verdict[blocks[i]] = "None"
                                THEN [error |-> "None",
                                      required_iters |-> RequiredIters(blocks[i])]
                                ELSE IF verdict[blocks[i]] = "exception"
                                THEN [error |-> "UNKNOWN", required_iters |-> NoIters]
                                ELSE [error |-> verdict[blocks[i]],
                                      required_iters |-> NoIters]
                   /\ Len(d) * batch_size >= n
                   /\ (Len(d) - 1) * batch_size < n
                   /\ \A k \in 1 .. Len(d) :
                         /\ Len(d[k].blocks) >= 1
                         /\ Len(d[k].blocks) <= batch_size
                         /\ k < Len(d) => Len(d[k].blocks) = batch_size
                         /\ Len(d[k].expected_difficulty) = Len(d[k].blocks)
                         /\ Len(d[k].expected_sub_slot_iters) = Len(d[k].blocks)
                         /\ \A j \in 1 .. Len(d[k].blocks) :
                               /\ d[k].blocks[j] = blocks[first(k) + j]
                               /\ d[k].expected_difficulty[j] =
                                      Difficulty(blocks[first(k) + j])
                               /\ d[k].expected_sub_slot_iters[j] =
                                      SubSlotIters(blocks[first(k) + j])

\* three blocks of two chains validated in two batches, the second block rejected
\* by its worker
C25_Witness ==
    /\ call.op = "pre_validate_blocks_multiprocessing" /\ call.pc = "returned"
    /\ call.blocks = <<<<"A", 1>>, <<"B", 2>>, <<"B", 3>>>>
    /\ call.batch_size = 2
    /\ Len(call.dispatched) = 2
    /\ Len(call.results) = 3
    /\ call.results[2].error = "INVALID_HEADER"
    /\ call.results[3].error = "None"

C27_SeenSetBounded ==
    [][\A p \in CompactProofs :
          seen_compact_proofs(p[1], p[2])
             => /\ p \in call.seen => (call'.result = TRUE /\ call'.seen = call.seen)
                /\ p \notin call.seen
                     => /\ call'.result = FALSE
                        /\ call'.seen = IF Cardinality(call.seen) > SeenLimit
                                        THEN {p} ELSE call.seen \cup {p}
                /\ p \in call'.seen
                /\ Cardinality(call'.seen) <= SeenLimit + 1]_vars

\* the set holds limit + 1 pairs after an insertion: the next insertion clears it
C27_Witness ==
    /\ call.op = "seen_compact_proofs"
    /\ call.result = FALSE
    /\ call.pot_tuple \in call.seen
    /\ Cardinality(call.seen) = SeenLimit + 1

\* C28: the pool is created with min(61, max(cpu_count - reserved_cores, 1))
\* workers, 61 of them for cpu_count = 100 and reserved_cores = 2, and always
\* between 1 and 61.
C28_WorkerCount ==
    (call.op = "create" /\ call.pc = "returned")
        => /\ call.num_workers =
                 (LET wanted == IF call.cpu_count - call.reserved_cores >= 1
                                THEN call.cpu_count - call.reserved_cores ELSE 1
                  IN  IF wanted <= 61 THEN wanted ELSE 61)
           /\ (call.cpu_count = 100 /\ call.reserved_cores = 2) => call.num_workers = 61
           /\ call.num_workers >= 1
           /\ call.num_workers <= 61

\* C29: when two competing blocks of equal weight have both been received, the
\* peak is the same whichever of the two was received first: it is the winner
\* that the pair alone fixes.
C29_TieBreakDeterministic ==
    \A a, b \in Blocks :
        (/\ pc = "idle"
         /\ a # b
         /\ {a[1], b[1]} = {"A", "B"}
         /\ Weight(a) = Weight(b)
         /\ {a, b} \subseteq DOMAIN db.rows
         /\ db.peak \in {a, b})
            => db.peak = (CHOOSE w \in {a, b} : TRUE)

\* C30: validate_unfinished_block answers INVALID_PREV_BLOCK_HASH, with no header
\* validation and no engine call, when the parent is neither cached nor
\* GENESIS_CHALLENGE; otherwise header validation runs first and the engine is
\* called only after the header passed, the body being validated with
\* height = parent height + 1 (0 for a GENESIS_CHALLENGE parent) and no block
\* record; the result carries required_iters exactly when it carries no error;
\* the cache, the store, the height map and the peak stay as they were.
C30_ValidateUnfinishedBlock ==
    LET parent_unknown == ~contains_block(Prev(call.block)) /\
                          Prev(call.block) # GENESIS_CHALLENGE
    IN
    (call.op = "validate_unfinished_block" /\ call.pc # "idle") =>
        /\ ChainState = call.before
        /\ parent_unknown =>
              /\ call.pc = "returned"
              /\ call.result = PreValidationResult("INVALID_PREV_BLOCK_HASH", NoIters)
              /\ call.header_runs = 0
              /\ call.engine_calls = 0
        /\ (~parent_unknown /\ call.pc = "returned") => call.header_runs = 1
        /\ call.engine_calls > 0 =>
              /\ call.header_runs = 1
              /\ call.header_verdict = "None"
              /\ call.engine_calls = 1
        /\ (call.pc = "returned" /\ ~parent_unknown /\ call.header_verdict = "None") =>
              /\ call.height = (IF Prev(call.block) = GENESIS_CHALLENGE THEN 0
                                ELSE Height(Prev(call.block)) + 1)
              /\ call.block_record = "None"
              /\ call.engine_calls = (IF HasPayload(call.block) THEN 1 ELSE 0)
        /\ call.pc = "returned" =>
              (call.result.required_iters # NoIters) <=> (call.result.error = "None")

\* a block whose cached parent is not the genesis parent passed header validation
\* and the engine, and came back with its required_iters
C30_Witness ==
    /\ call.op = "validate_unfinished_block"
    /\ call.pc = "returned"
    /\ call.block = <<"B", 2>>
    /\ call.header_runs = 1
    /\ call.engine_calls = 1
    /\ call.height = 2
    /\ call.result = PreValidationResult("None", RequiredIters(<<"B", 2>>))

\* C31: get_recent_reward_challenges returns the empty list when there is no peak,
\* and otherwise at most 2 * MAX_SUB_SLOT_BLOCKS pairs, oldest first, also when
\* blocks at sub-slot starts contribute several finished reward-slot hashes.
C31_RecentRewardChallenges ==
    (call.op = "get_recent_reward_challenges" /\ call.pc = "returned") =>
        /\ call.chain = <<>> => call.result = <<>>
        /\ Len(call.result) <= 2 * MAX_SUB_SLOT_BLOCKS
        /\ \A j \in 2 .. Len(call.result) : call.result[j - 1][1] <= call.result[j][1]

\* C32: in body validation forkchoice_update is called at most once, only for a
\* full block, only after new_payload has returned, and never when new_payload
\* returned INVALID, INVALID_BLOCK_HASH or an unrecognized status; for an
\* unfinished block it is never called.
C32_EngineCallsOrdered ==
    (call.op = "validate_block_body" /\ call.pc = "returned") =>
        LET fcu == {i \in 1 .. Len(call.calls) : call.calls[i] = "forkchoice_update"} IN
        /\ Cardinality(fcu) <= 1
        /\ fcu # {} => /\ call.is_full
                       /\ call.calls = <<"new_payload", "forkchoice_update">>
                       /\ engine_status(call.new_payload) \in {"VALID", "SYNCING", "ACCEPTED"}
        /\ ~call.is_full => fcu = {}

\* a full block whose payload the engine is still syncing went on to forkchoice_update
C32_Witness ==
    /\ call.op = "validate_block_body" /\ call.pc = "returned"
    /\ call.is_full /\ call.has_payload
    /\ call.new_payload = "SYNCING"
    /\ call.calls = <<"new_payload", "forkchoice_update">>

\* C38: a block without an execution payload, full or unfinished, passes body
\* validation with no error and with no call to the engine, whatever the engine
\* would answer.
C38_NoPayloadNoEngine ==
    (call.op = "validate_block_body" /\ call.pc = "returned" /\ ~call.has_payload) =>
        /\ call.result = "None"
        /\ call.calls = <<>>

\* a full block without payload passed while the engine would have rejected
C38_Witness ==
    /\ call.op = "validate_block_body" /\ call.pc = "returned"
    /\ ~call.has_payload /\ call.is_full
    /\ call.new_payload = "INVALID" /\ call.forkchoice_update = "timeout"
    /\ call.result = "None" /\ call.calls = <<>>

\* C33: when a heavier block is received whose chain shares no block with the
\* canonical chain, _reconsider_peak walks back to the new chain's height-0 block,
\* marks the new chain's blocks from height 0 to the new peak in-chain in
\* chronological order, reports fork height 0, and afterwards every entry of the
\* height map, the one of height 0 included, points to the new chain.
C33_FullReorgFromGenesis ==
    (/\ pc = "maybe_flush"
     /\ cur.summary # NoSummary
     /\ pre.db.peak # NoHash
     /\ {pre.db.peak[1], cur.block[1]} = {"A", "C"}) =>
        /\ Len(cur.records) = Height(cur.block) + 1
        /\ \A i \in 1 .. Len(cur.records) :
              /\ cur.records[i].header_hash = <<cur.block[1], i - 1>>
              /\ cur.records[i].header_hash \in db.in_chain
        /\ cur.summary.fork_height = 0
        /\ db.peak = cur.block
        /\ DOMAIN height_map = 0 .. Height(cur.block)
        /\ \A h \in DOMAIN height_map : height_map[h] = <<cur.block[1], h>>

\* chain C took the peak from a chain A of several blocks
C33_Witness ==
    /\ pc = "maybe_flush"
    /\ cur.block = <<"C", 1>>
    /\ pre.db.peak[1] = "A"
    /\ pre.peak_height >= 2
    /\ cur.summary.fork_height = 0
    /\ height_map[0] = <<"C", 0>>

\* C34: maybe_flush runs only after the writer transaction has committed and
\* peak_height has been published, and its failure reverts nothing: the block
\* stays in the store, the cache and the height map keep it, and peak_height
\* keeps its new value.
C34_FlushFailureRevertsNothing ==
    [][pc = "maybe_flush" =>
         /\ tx = EmptyDb
         /\ cur.block \in DOMAIN db.rows
         /\ cur.block \in DOMAIN block_records
         /\ cur.summary # NoSummary =>
               /\ db.peak = cur.block
               /\ peak_height = cur.record.height
               /\ height_map[peak_height] = cur.block
         /\ (pc' = "idle" /\ ret'.outcome = "RAISED") =>
               UNCHANGED <<db, block_records, heights_in_cache, height_map, peak_height>>]_vars

\* maybe_flush failed in the call that made a block of height 1 or more the peak
C34_Witness ==
    /\ pc = "idle"
    /\ ret = Result("receive_block", "RAISED", "maybe_flush", NoSummary)
    /\ peak_height >= 1
    /\ db.peak = height_map[peak_height]
    /\ db.peak \in DOMAIN block_records

C37_AlreadyHaveOnlyStored ==
    pc = "idle" =>
        \A block \in Blocks :
            receive_block_checks(block, "None") = "ALREADY_HAVE_BLOCK"
                => block \in DOMAIN db.rows

\* C39: along a chain whose height-0 block is a transaction block, the
\* withdrawals made for each transaction block in turn reward every block at or
\* below the latest transaction block taken exactly once, reward no other block,
\* and hold the prefarm withdrawal exactly once.
C39_EveryBlockRewardedOnce ==
    (call.op = "create_withdrawals_in_turn" /\ call.done # NoIndex) =>
        LET ws == call.result
            rewards(height) ==
                {i \in 1 .. Len(ws) :
                    /\ ws[i].validator_index = 1
                    /\ ws[i].address = call.blocks[WdHash(height)].coinbase}
        IN  /\ \A h \in DOMAIN call.blocks :
                  Cardinality(rewards(h[2])) = IF h[2] <= call.done THEN 1 ELSE 0
            /\ \A h \in DOMAIN call.blocks : \A i \in rewards(h[2]) :
                  ws[i].amount = _calculate_block_reward(h[2])
            /\ Cardinality({i \in 1 .. Len(ws) : ws[i].validator_index = 0}) = 1
            /\ Cardinality({i \in 1 .. Len(ws) : ws[i].address = PREFARM_ADDRESS}) = 1
            /\ Len(ws) = call.done + 2

\* three transaction blocks were taken in turn, or two with a block between them
C39_Witness ==
    /\ call.op = "create_withdrawals_in_turn"
    /\ call.done = 2
    /\ Len(call.result) = 4
    /\ ~call.blocks[WdHash(1)].is_transaction_block
    /\ call.result[3].address = call.blocks[WdHash(2)].coinbase
    /\ call.result[4].address = call.blocks[WdHash(1)].coinbase

\* C40: the two cache indexes agree in every state: each key of the block-record
\* map is a member of the heights-in-cache set of its record's height, and each
\* member of a heights-in-cache set is a key of the block-record map whose record
\* has that height, so clean_block_record deletes only hashes that are keys.
C40_CacheIndexesConsistent ==
    /\ \A header_hash \in DOMAIN block_records :
          /\ block_records[header_hash].height \in DOMAIN heights_in_cache
          /\ header_hash \in heights_in_cache[block_records[header_hash].height]
    /\ \A height \in DOMAIN heights_in_cache :
          \A header_hash \in heights_in_cache[height] :
              /\ header_hash \in DOMAIN block_records
              /\ block_records[header_hash].height = height

\* clean_block_records has dropped the lowest height from a cache that
\* pre-validation and receive_block have filled, two blocks sharing a height
C40_Witness ==
    /\ pc = "idle"
    /\ ret.op = "clean_block_records"
    /\ peak_height >= BLOCKS_CACHE_SIZE
    /\ 0 \notin DOMAIN heights_in_cache
    /\ \E height \in DOMAIN heights_in_cache : Cardinality(heights_in_cache[height]) = 2
    /\ bad_batches > 0

====
